---- MODULE Spec2Model ----
(***************************************************************************)
(* One Night Ultimate Werewolf: the game controller (src/common/game.py),  *)
(* the role classes (src/players/roles.py, src/players/base.py) and the    *)
(* vote handling of the conversation manager                               *)
(* (src/conversation/conversation_manager.py), as a state machine.         *)
(*                                                                         *)
(* A participant is an index into player_names; self.players is the pair   *)
(* of sequences assigned_role / current_role (one entry per created        *)
(* player).  Every random draw and every oracle answer is a \E choice.     *)
(***************************************************************************)
EXTENDS Integers, Sequences, FiniteSets, TLC

VARIABLES
    player_names,          \* Game.player_names: the roster, a sequence of ids
    deck,                  \* GAME_CONFIG["roles"]
    total_rounds,          \* GAME_CONFIG["conversation_rounds"]
    phase,                 \* Game.phase
    pc,                    \* where Game.start stands
    error,                 \* the exception that left Game.start, or "none"
    assigned_role,         \* p.assigned_role for each created player
    current_role,          \* p.current_role for each created player
    center_roles,          \* Game.center_roles
    night_file,            \* LOG_PATHS["night_actions"]: id -> action record
    night_done,            \* the players whose night action has run, in order
    cm_night_actions,      \* ConversationManager.night_actions
    conversation_history,  \* ConversationManager.conversation_history
    round_num,             \* _day_phase: round_num
    round_players,         \* _day_phase: round_players (this round's order)
    position,              \* _day_phase: speakers of this round served so far
    vote_count,            \* _collect_votes: the tally being built
    last_count,            \* _voting_phase: vote_count (the last finished round)
    is_tie_breaker,        \* _collect_votes: is_tie_breaker
    voter,                 \* _collect_votes: voters of this round served so far
    vote_round,            \* number of the voting round in progress
    pending,               \* the oracle request in flight, or NoRequest
    asked,                 \* the vote requests made in this round, in order
    vote,                  \* _collect_votes: vote (the last vote returned)
    warnings,              \* voters of this round warned about an invalid vote
    narration,             \* ctx.send: the announcements, in order
    eliminated,            \* _announce_results: eliminated_player (0: none yet)
    winner,                \* _announce_results: winner ("none": none yet)
    call_state,            \* a call of _get_max_voted_players on its own:
                           \* "idle" (none), "called" or "returned"
    call_count,            \* its argument vote_count
    call_result,           \* the list it returned
    swap_state,            \* the two swaps of a night applied on their own, in
                           \* both orders: "idle" (not), "called" or "returned"
    swap_args,             \* the starting current roles and who swaps with whom
    swap_result,           \* the current roles after either order
    vote_log,              \* LOG_PATHS["voting_results"]: the lines, in order
    other_pc               \* where a second Game.start on the same logs
                           \* stands ("idle": there is none)

vars == << player_names, deck, total_rounds, phase, pc, error, assigned_role,
           current_role, center_roles, night_file, night_done,
           cm_night_actions, conversation_history, round_num, round_players,
           position, vote_count, last_count, is_tie_breaker, voter, vote_round,
           pending, asked, vote, warnings, narration, eliminated, winner,
           call_state, call_count, call_result, swap_state, swap_args,
           swap_result, vote_log, other_pc >>

\* the voting-results log and the second game that shares every log
sharedVars == << vote_log, other_pc >>

setupVars == << assigned_role, current_role, center_roles >>
nightVars == << night_file, night_done, cm_night_actions >>
dayVars == << conversation_history, round_num, round_players, position >>
voteVars == << vote_count, last_count, is_tie_breaker, voter, vote_round,
               pending, asked, vote, warnings >>
endVars == << eliminated, winner >>
configVars == << player_names, deck, total_rounds >>
callVars == << call_state, call_count, call_result, swap_state, swap_args,
              swap_result >>

(***************************************************************************)
(* Bounds of the model.                                                    *)
(***************************************************************************)
\* voting rounds (the initial round and the tie-break rounds) explored
MaxVoteRounds == 2
\* roster size
NumPlayers == 3
\* largest count of a tally handed to _get_max_voted_players on its own
MaxCount == 3
\* roster size of the games played with their discussion rounds
NumSpeakers == 2

(***************************************************************************)
(* Configuration.                                                          *)
(***************************************************************************)
\* commands.py: player_names of the !play command (the PLAYER_COLORS keys)
AllNames == << "AI_P1", "AI_P2", "AI_P3", "AI_P4", "AI_P5" >>

\* ReferenceDeck with one Villager only: one card more than the !play roster
ReferenceDeckOneSpare ==
    << "Werewolf", "Werewolf", "Seer", "Robber", "Troublemaker", "Villager" >>

\* config.py: GAME_CONFIG["roles"]
ReferenceDeck == << "Werewolf", "Werewolf", "Seer", "Robber", "Troublemaker",
                    "Villager", "Villager", "Villager" >>

\* config.py: GAME_CONFIG["conversation_rounds"]
ConversationRounds == 3

\* roles.py: create_player's role_classes
KnownRoles == { "Werewolf", "Seer", "Robber", "Troublemaker", "Villager" }

\* RoleOrder with the Troublemaker called before the Robber
RoleOrderTroublemakerFirst ==
    << "Werewolf", "Seer", "Troublemaker", "Robber", "Villager" >>

\* game.py: role_order of _night_phase, then the villagers
RoleOrder == << "Werewolf", "Seer", "Robber", "Troublemaker", "Villager" >>

(***************************************************************************)
(* Helpers on sequences.                                                   *)
(***************************************************************************)
Range(s) == { s[i] : i \in DOMAIN s }

\* number of positions of s holding x
Count(s, x) == Cardinality({ i \in DOMAIN s : s[i] = x })

RECURSIVE SumSeq(_)
SumSeq(s) == IF s = << >> THEN 0 ELSE Head(s) + SumSeq(Tail(s))


NumCreated == Len(assigned_role)
Players == 1..NumCreated

\* an oracle request: what is asked, on whose behalf, and the context passed
\* (the player's own night action, the transcript, and for a revote the tied
\* ids and the vote results)
Request(kind, p, night, history, tied, results) ==
    [ kind |-> kind, player |-> p, night |-> night, history |-> history,
      tied |-> tied, results |-> results ]

NoRequest == Request("none", 0, << >>, << >>, << >>, << >>)

\* an empty dict / an empty JSON object
EmptyMap == [ k \in {} |-> 0 ]

\* dict[key] = value
Put(map, key, value) ==
    [ k \in DOMAIN map \cup {key} |-> IF k = key THEN value ELSE map[k] ]

\* the action record a night action writes: what was done, to whom, what was seen
Record(kind, ids, roles) == [ kind |-> kind, ids |-> ids, roles |-> roles ]

\* a record left in the night-action log by an earlier game
StaleRecord == Record("stale", << >>, << >>)
StaleFile == [ k \in Range(AllNames) |-> StaleRecord ]

(***************************************************************************)
(* Game.__init__ (with ConversationManager.__init__, which loads whatever  *)
(* the night-action log holds).                                            *)
(***************************************************************************)
InitWith(names, roles, rounds, file) ==
    /\ player_names = names
    /\ deck = roles
    /\ total_rounds = rounds
    /\ phase = "setup"
    /\ pc = "start"
    /\ error = "none"
    /\ assigned_role = << >>
    /\ current_role = << >>
    /\ center_roles = << >>
    /\ night_file = file
    /\ night_done = << >>
    /\ cm_night_actions = file
    /\ conversation_history = << >>
    /\ round_num = 0
    /\ round_players = << >>
    /\ position = 0
    /\ vote_count = << >>
    /\ last_count = << >>
    /\ is_tie_breaker = FALSE
    /\ voter = 0
    /\ vote_round = 0
    /\ pending = NoRequest
    /\ asked = << >>
    /\ vote = "none"
    /\ warnings = << >>
    /\ narration = << >>
    /\ eliminated = 0
    /\ winner = "none"
    /\ vote_log = << >>
    /\ other_pc = "idle"

\* the arguments of the two swaps: the Robber (robber) swaps with target,
\* the Troublemaker swaps first and second
SwapArgs(roles, robber, target, first, second) ==
    [ roles |-> roles, robber |-> robber, target |-> target,
      first |-> first, second |-> second ]

\* the current roles after the Robber's swap then the Troublemaker's
\* (robber_first), and after the Troublemaker's then the Robber's
SwapResult(robber_first, troublemaker_first) ==
    [ robber_first |-> robber_first, troublemaker_first |-> troublemaker_first ]

\* the swaps are not applied on their own
NoSwapCall ==
    /\ swap_state = "idle"
    /\ swap_args = SwapArgs(<< >>, 0, 0, 0, 0)
    /\ swap_result = SwapResult(<< >>, << >>)

\* no call of _get_max_voted_players on its own, nor of the swaps
NoCall ==
    /\ call_state = "idle"
    /\ call_count = << >>
    /\ call_result = << >>
    /\ NoSwapCall

\* a line of the voting-results log: which game wrote it, what it is, and
\* the participant a vote line is about
VoteLine(game, kind, id) == [ game |-> game, kind |-> kind, id |-> id ]

\* "=== One Night Ultimate Werewolf - Voting Results ===": the same text
\* whichever game writes it
HeaderLine == VoteLine("any", "header", "")

\* the first with-block of _announce_results: "Final Vote Count:" and one
\* line per player, on the file when the block closes
FinalVoteCount(game, n) ==
    << VoteLine(game, "final_vote_count", "") >>
      \o [ i \in 1..n |-> VoteLine(game, "votes", player_names[i]) ]

\* the second with-block of _announce_results: "Game Result: ..."
GameResult(game) == VoteLine(game, "game_result", "")

(***************************************************************************)
(* Game.start up to _assign_roles: the opening announcement and            *)
(* _initialize_logs (ConversationManager.clear_history included).          *)
(***************************************************************************)
\* Start without _initialize_logs and clear_history
StartKeepsLogs ==
    /\ pc = "start"
    /\ narration' = Append(narration, "game_starting")
    /\ pc' = "assign"
    /\ UNCHANGED << configVars, callVars, sharedVars, phase, error, setupVars, nightVars,
                    dayVars, voteVars, endVars >>

Start ==
    /\ pc = "start"
    /\ narration' = Append(narration, "game_starting")
    /\ night_file' = EmptyMap
    /\ conversation_history' = << >>
    /\ cm_night_actions' = EmptyMap
    /\ vote_log' = << HeaderLine >>
    /\ pc' = "assign"
    /\ UNCHANGED << configVars, callVars, other_pc, phase, error, setupVars, night_done, round_num,
                    round_players, position, voteVars, endVars >>

(***************************************************************************)
(* Game._assign_roles.                                                     *)
(***************************************************************************)
\* random.shuffle(all_roles): every arrangement of the deck
Shuffles(roles) ==
    { [ i \in 1..Len(roles) |-> roles[p[i]] ] : p \in Permutations(1..Len(roles)) }

\* the role all_roles.pop() gives the k-th player: cards leave from the end
PoppedRole(all_roles, k) == all_roles[Len(all_roles) + 1 - k]

\* the first player whose creation raises: the deck is empty (IndexError) or
\* create_player does not know the role (ValueError); 0 when none does
FirstFailure(all_roles, n) ==
    LET bad == { k \in 1..n : \/ k > Len(all_roles)
                              \/ PoppedRole(all_roles, k) \notin KnownRoles }
    IN IF bad = {} THEN 0 ELSE CHOOSE k \in bad : \A j \in bad : k <= j

\* the roles of the first n players created
DealtRoles(all_roles, n) == [ k \in 1..n |-> PoppedRole(all_roles, k) ]

\* CenterAfter without the pops: the center keeps every card of the deck
CenterAfterNoPop(all_roles, n) == all_roles

\* what is left of all_roles after n pops
CenterAfter(all_roles, n) == SubSeq(all_roles, 1, Len(all_roles) - n)

\* AssignRoles with role classes that leave current_role as Player.__init__
\* set it
AssignRolesCurrentUnset ==
    /\ pc = "assign"
    /\ \E all_roles \in Shuffles(deck) :
         /\ FirstFailure(all_roles, Len(player_names)) = 0
         /\ assigned_role' = DealtRoles(all_roles, Len(player_names))
         /\ current_role' = [ k \in 1..Len(player_names) |-> "None" ]
         /\ center_roles' = CenterAfter(all_roles, Len(player_names))
    /\ phase' = "role_assignment"
    /\ narration' = Append(narration, "roles_assigned")
    /\ pc' = "night"
    /\ UNCHANGED << configVars, callVars, sharedVars, error, nightVars, dayVars, voteVars, endVars >>

AssignRoles ==
    /\ pc = "assign"
    /\ \E all_roles \in Shuffles(deck) :
         /\ FirstFailure(all_roles, Len(player_names)) = 0
         /\ assigned_role' = DealtRoles(all_roles, Len(player_names))
         /\ current_role' = DealtRoles(all_roles, Len(player_names))
         /\ center_roles' = CenterAfter(all_roles, Len(player_names))
    /\ phase' = "role_assignment"
    /\ narration' = Append(narration, "roles_assigned")
    /\ pc' = "night"
    /\ UNCHANGED << configVars, callVars, sharedVars, error, nightVars, dayVars, voteVars, endVars >>

\* the exception leaves Game.start; ai_only_game reports it and re-raises
AssignRolesFails ==
    /\ pc = "assign"
    /\ \E all_roles \in Shuffles(deck) :
         LET k == FirstFailure(all_roles, Len(player_names)) IN
         /\ k # 0
         /\ assigned_role' = DealtRoles(all_roles, k - 1)
         /\ current_role' = DealtRoles(all_roles, k - 1)
         /\ error' = IF k > Len(all_roles) THEN "IndexError" ELSE "ValueError"
    /\ phase' = "role_assignment"
    /\ narration' = Append(narration, "error_running_game")
    /\ pc' = "failed"
    /\ UNCHANGED << configVars, callVars, sharedVars, center_roles, nightVars, dayVars, voteVars,
                    endVars >>

(***************************************************************************)
(* Game._night_phase and the roles' perform_night_action.                  *)
(***************************************************************************)
\* self.players, as the list of its indices
PlayerList == [ p \in Players |-> p ]

\* [p for p in self.players if p.assigned_role == role]
PlayersWithRole(role) ==
    LET HasRole(p) == assigned_role[p] = role
    IN SelectSeq(PlayerList, HasRole)

\* the order in which _night_phase calls perform_night_action
NightQueue ==
    PlayersWithRole(RoleOrder[1]) \o PlayersWithRole(RoleOrder[2])
      \o PlayersWithRole(RoleOrder[3]) \o PlayersWithRole(RoleOrder[4])
      \o PlayersWithRole(RoleOrder[5])

\* the player whose perform_night_action runs next (0: the loops are over)
NightActor ==
    IF Len(night_done) < Len(NightQueue) THEN NightQueue[Len(night_done) + 1]
    ELSE 0

\* [p for p in self.game.players if p != self]
OtherPlayers(p) == Players \ {p}

\* Player.record_night_action
RecordNightAction(p, action) ==
    /\ night_file' = Put(night_file, player_names[p], action)
    /\ night_done' = Append(night_done, p)

NightBegin ==
    /\ pc = "night"
    /\ phase' = "night"
    /\ narration' = Append(narration, "night_phase")
    /\ pc' = "night_actions"
    /\ UNCHANGED << configVars, callVars, sharedVars, error, setupVars, nightVars, dayVars, voteVars,
                    endVars >>

nightFrame == << configVars, callVars, sharedVars, phase, pc, error, assigned_role, center_roles,
                 cm_night_actions, dayVars, voteVars, narration, endVars >>

\* Werewolf.perform_night_action, other werewolves among the players
WerewolfSeesPack(p) ==
    /\ pc = "night_actions" /\ NightActor = p
    /\ assigned_role[p] = "Werewolf"
    /\ LET IsOther(q) == q # p
           other_werewolves == SelectSeq(PlayersWithRole("Werewolf"), IsOther)
       IN /\ other_werewolves # << >>
          /\ RecordNightAction(p, Record("saw_werewolves",
                 [ i \in DOMAIN other_werewolves |->
                     player_names[other_werewolves[i]] ], << >>))
    /\ UNCHANGED << nightFrame, current_role >>

\* WerewolfPeeksCenter taking the card out of the center
WerewolfDrawsCenter(p) ==
    /\ pc = "night_actions" /\ NightActor = p
    /\ assigned_role[p] = "Werewolf"
    /\ { q \in OtherPlayers(p) : assigned_role[q] = "Werewolf" } = {}
    /\ \E c \in DOMAIN center_roles :
         /\ RecordNightAction(p, Record("lone_werewolf", << >>, << center_roles[c] >>))
         /\ center_roles' = [ i \in 1..(Len(center_roles) - 1) |->
                                IF i < c THEN center_roles[i] ELSE center_roles[i + 1] ]
    /\ UNCHANGED << configVars, callVars, sharedVars, phase, pc, error, assigned_role, current_role,
                    cm_night_actions, dayVars, voteVars, narration, endVars >>

\* Werewolf.perform_night_action, the only werewolf: random.choice(center_roles)
WerewolfPeeksCenter(p) ==
    /\ pc = "night_actions" /\ NightActor = p
    /\ assigned_role[p] = "Werewolf"
    /\ { q \in OtherPlayers(p) : assigned_role[q] = "Werewolf" } = {}
    /\ \E c \in DOMAIN center_roles :
         RecordNightAction(p, Record("lone_werewolf", << >>, << center_roles[c] >>))
    /\ UNCHANGED << nightFrame, current_role >>

\* SeerPeeksPlayer taking the card it looks at
SeerTakesCard(p) ==
    /\ pc = "night_actions" /\ NightActor = p
    /\ assigned_role[p] = "Seer"
    /\ \E target \in OtherPlayers(p) :
         /\ current_role' = [ current_role EXCEPT ![p] = current_role[target] ]
         /\ RecordNightAction(p, Record("seer_player", << player_names[target] >>,
                                        << assigned_role[target] >>))
    /\ UNCHANGED nightFrame

\* SeerPeeksPlayer choosing among all players, itself included
SeerPeeksAnyPlayer(p) ==
    /\ pc = "night_actions" /\ NightActor = p
    /\ assigned_role[p] = "Seer"
    /\ \E target \in Players :
         RecordNightAction(p, Record("seer_player", << player_names[target] >>,
                                     << assigned_role[target] >>))
    /\ UNCHANGED << nightFrame, current_role >>

\* Seer.perform_night_action, random.random() < 0.5: one other player's card
SeerPeeksPlayer(p) ==
    /\ pc = "night_actions" /\ NightActor = p
    /\ assigned_role[p] = "Seer"
    /\ \E target \in OtherPlayers(p) :
         RecordNightAction(p, Record("seer_player", << player_names[target] >>,
                                     << assigned_role[target] >>))
    /\ UNCHANGED << nightFrame, current_role >>

\* Seer.perform_night_action, otherwise: random.sample(center_roles, 2)
SeerPeeksCenter(p) ==
    /\ pc = "night_actions" /\ NightActor = p
    /\ assigned_role[p] = "Seer"
    /\ \E i, j \in DOMAIN center_roles :
         /\ i # j
         /\ RecordNightAction(p, Record("seer_center", << >>,
                                        << center_roles[i], center_roles[j] >>))
    /\ UNCHANGED << nightFrame, current_role >>

\* RobberSwap without its last assignment: the Robber keeps its own card
RobberSwapOneWay(roles, p, target) == [ roles EXCEPT ![target] = roles[p] ]

\* the Robber's three assignments: stolen_role = target.current_role;
\* target.current_role = self.current_role; self.current_role = stolen_role
RobberSwap(roles, p, target) ==
    [ roles EXCEPT ![target] = roles[p], ![p] = roles[target] ]

\* RobberSwaps recording the card the Robber gave away
RobberSwapsReportsOld(p) ==
    /\ pc = "night_actions" /\ NightActor = p
    /\ assigned_role[p] = "Robber"
    /\ \E target \in OtherPlayers(p) :
         /\ current_role' = RobberSwap(current_role, p, target)
         /\ RecordNightAction(p, Record("robber_swap", << player_names[target] >>,
                                        << current_role[p] >>))
    /\ UNCHANGED nightFrame

\* Robber.perform_night_action, random.random() < 0.8
RobberSwaps(p) ==
    /\ pc = "night_actions" /\ NightActor = p
    /\ assigned_role[p] = "Robber"
    /\ \E target \in OtherPlayers(p) :
         /\ current_role' = RobberSwap(current_role, p, target)
         /\ RecordNightAction(p, Record("robber_swap", << player_names[target] >>,
                                        << current_role'[p] >>))
    /\ UNCHANGED nightFrame

\* Robber.perform_night_action, otherwise
RobberPasses(p) ==
    /\ pc = "night_actions" /\ NightActor = p
    /\ assigned_role[p] = "Robber"
    /\ RecordNightAction(p, Record("robber_pass", << >>, << >>))
    /\ UNCHANGED << nightFrame, current_role >>

\* TroublemakerSwap as two assignments in a row: the second reads the card
\* the first has just written
TroublemakerSwapInTurn(roles, a, b) == [ roles EXCEPT ![a] = roles[b] ]

\* the Troublemaker's tuple assignment on targets[0], targets[1]
TroublemakerSwap(roles, a, b) ==
    [ roles EXCEPT ![a] = roles[b], ![b] = roles[a] ]

\* TroublemakerSwaps sampling its targets from all players
TroublemakerSwapsAny(p) ==
    /\ pc = "night_actions" /\ NightActor = p
    /\ assigned_role[p] = "Troublemaker"
    /\ Cardinality(OtherPlayers(p)) >= 2
    /\ \E a, b \in Players :
         /\ a # b
         /\ current_role' = TroublemakerSwap(current_role, a, b)
         /\ RecordNightAction(p, Record("troublemaker_swap",
                                        << player_names[a], player_names[b] >>,
                                        << >>))
    /\ UNCHANGED nightFrame

\* Troublemaker.perform_night_action, random.random() < 0.5 and two others
TroublemakerSwaps(p) ==
    /\ pc = "night_actions" /\ NightActor = p
    /\ assigned_role[p] = "Troublemaker"
    /\ Cardinality(OtherPlayers(p)) >= 2
    /\ \E a, b \in OtherPlayers(p) :
         /\ a # b
         /\ current_role' = TroublemakerSwap(current_role, a, b)
         /\ RecordNightAction(p, Record("troublemaker_swap",
                                        << player_names[a], player_names[b] >>,
                                        << >>))
    /\ UNCHANGED nightFrame

\* Troublemaker.perform_night_action, random.random() < 0.5, fewer than two others
TroublemakerShort(p) ==
    /\ pc = "night_actions" /\ NightActor = p
    /\ assigned_role[p] = "Troublemaker"
    /\ Cardinality(OtherPlayers(p)) < 2
    /\ RecordNightAction(p, Record("troublemaker_short", << >>, << >>))
    /\ UNCHANGED << nightFrame, current_role >>

\* Troublemaker.perform_night_action, otherwise
TroublemakerPasses(p) ==
    /\ pc = "night_actions" /\ NightActor = p
    /\ assigned_role[p] = "Troublemaker"
    /\ RecordNightAction(p, Record("troublemaker_pass", << >>, << >>))
    /\ UNCHANGED << nightFrame, current_role >>

\* the assignments of the Robber's swap and of the Troublemaker's swap, run
\* on the same starting current roles in either order
ApplySwapsBothOrders ==
    /\ swap_state = "called"
    /\ swap_result' =
         SwapResult(
            TroublemakerSwap(RobberSwap(swap_args.roles, swap_args.robber,
                                        swap_args.target),
                             swap_args.first, swap_args.second),
            RobberSwap(TroublemakerSwap(swap_args.roles, swap_args.first,
                                        swap_args.second),
                       swap_args.robber, swap_args.target))
    /\ swap_state' = "returned"
    /\ UNCHANGED << configVars, phase, pc, error, setupVars, nightVars, dayVars,
                    voteVars, narration, endVars, call_state, call_count,
                    call_result, swap_args, sharedVars >>

\* Villager.perform_night_action
VillagerSleeps(p) ==
    /\ pc = "night_actions" /\ NightActor = p
    /\ assigned_role[p] = "Villager"
    /\ RecordNightAction(p, Record("villager", << >>, << >>))
    /\ UNCHANGED << nightFrame, current_role >>

\* a night action raises: random.choice of an empty list (IndexError: a lone
\* werewolf with no center card, a Seer or Robber with no other player) or
\* random.sample of two out of fewer center cards (ValueError)
NightActionFails(p) ==
    /\ pc = "night_actions" /\ NightActor = p
    /\ \/ /\ assigned_role[p] = "Werewolf"
          /\ { q \in OtherPlayers(p) : assigned_role[q] = "Werewolf" } = {}
          /\ center_roles = << >>
          /\ error' = "IndexError"
       \/ /\ assigned_role[p] \in { "Seer", "Robber" }
          /\ OtherPlayers(p) = {}
          /\ error' = "IndexError"
       \/ /\ assigned_role[p] = "Seer"
          /\ Len(center_roles) < 2
          /\ error' = "ValueError"
    /\ narration' = Append(narration, "error_running_game")
    /\ pc' = "failed"
    /\ UNCHANGED << configVars, callVars, sharedVars, phase, setupVars, nightVars, dayVars, voteVars,
                    endVars >>

\* the end of _night_phase: _load_night_actions and the dawn announcement
NightEnd ==
    /\ pc = "night_actions" /\ NightActor = 0
    /\ cm_night_actions' = night_file
    /\ narration' = Append(narration, "dawn")
    /\ pc' = "day"
    /\ UNCHANGED << configVars, callVars, sharedVars, phase, error, setupVars, night_file, night_done,
                    dayVars, voteVars, endVars >>

(***************************************************************************)
(* The decision oracle: LLMClient.create_completion.                       *)
(***************************************************************************)
\* NightActionOf handing over the whole log: every record, in roster order
NightActionsOfAll(actions, p) ==
    LET Logged(q) == player_names[q] \in DOMAIN actions
        logged == SelectSeq(PlayerList, Logged)
    IN [ i \in DOMAIN logged |-> actions[player_names[logged[i]]] ]

\* the "Your night action" message of build_context_messages, built from
\* the loaded log: night_actions.get(player.player_id, ""), left out when
\* there is none
NightActionOf(actions, p) ==
    IF player_names[p] \in DOMAIN actions
    THEN << actions[player_names[p]] >>
    ELSE << >>

\* ConversationManager.build_context_messages: night_actions.get(id, "")
OwnNightAction(p) == NightActionOf(cm_night_actions, p)

\* OracleFails with the exception caught and the request made again
OracleFailsRetried ==
    /\ pending # NoRequest
    /\ pc \in { "day_wait", "vote_wait" }
    /\ pending' = NoRequest
    /\ asked' = IF pc = "vote_wait" THEN SubSeq(asked, 1, Len(asked) - 1)
                ELSE asked
    /\ pc' = IF pc = "day_wait" THEN "day_ask" ELSE "vote_ask"
    /\ UNCHANGED << configVars, callVars, sharedVars, phase, error, setupVars, nightVars, dayVars,
                    vote_count, last_count, is_tie_breaker, voter, vote_round,
                    vote, warnings, narration, endVars >>

\* create_completion raises; the exception leaves Game.start, and
\* ai_only_game reports it and re-raises
OracleFails ==
    /\ pending # NoRequest
    /\ pc \in { "day_wait", "vote_wait" }
    /\ error' = "OracleError"
    /\ narration' = Append(narration, "error_running_game")
    /\ pc' = "failed"
    /\ UNCHANGED << configVars, callVars, sharedVars, phase, setupVars, nightVars, dayVars, voteVars,
                    endVars >>

(***************************************************************************)
(* Game._day_phase.                                                        *)
(***************************************************************************)
\* utterances the oracle may return
Utterances == { "claim" }

\* DayBegin without the assignment to self.phase
DayBeginKeepsPhase ==
    /\ pc = "day"
    /\ narration' = Append(narration, "day_phase")
    /\ round_num' = 0
    /\ pc' = "day_round"
    /\ UNCHANGED << configVars, callVars, sharedVars, phase, error, setupVars, nightVars,
                    conversation_history, round_players, position, voteVars,
                    endVars >>

\* the head of _day_phase
DayBegin ==
    /\ pc = "day"
    /\ phase' = "day"
    /\ narration' = Append(narration, "day_phase")
    /\ round_num' = 0
    /\ pc' = "day_round"
    /\ UNCHANGED << configVars, callVars, sharedVars, error, setupVars, nightVars,
                    conversation_history, round_players, position, voteVars,
                    endVars >>

\* RoundOrders drawing with replacement: random.choices(players, k=N)
RoundOrdersWithRepeats == [ Players -> Players ]

\* random.shuffle(round_players): every order of the players
RoundOrders == { [ i \in Players |-> q[i] ] : q \in Permutations(Players) }

\* one more iteration of the round loop
DayRoundBegins ==
    /\ pc = "day_round"
    /\ round_num < total_rounds
    /\ round_num' = round_num + 1
    /\ narration' = Append(narration, "discussion_round")
    /\ round_players' \in RoundOrders
    /\ position' = 0
    /\ pc' = "day_ask"
    /\ UNCHANGED << configVars, callVars, sharedVars, phase, error, setupVars, nightVars,
                    conversation_history, voteVars, endVars >>

\* DayAsk with the context built once per round: the transcript as it was
\* when the round began
DayAskRoundContext ==
    /\ pc = "day_ask"
    /\ position < Len(round_players)
    /\ LET p == round_players[position + 1] IN
       pending' = Request("utterance", p, OwnNightAction(p),
                          SubSeq(conversation_history, 1,
                                 Len(conversation_history) - position),
                          << >>, << >>)
    /\ pc' = "day_wait"
    /\ UNCHANGED << configVars, callVars, sharedVars, phase, error, setupVars, nightVars, dayVars,
                    vote_count, last_count, is_tie_breaker, voter, vote_round,
                    asked, vote, warnings, narration, endVars >>

\* generate_response up to create_completion
DayAsk ==
    /\ pc = "day_ask"
    /\ position < Len(round_players)
    /\ LET p == round_players[position + 1] IN
       pending' = Request("utterance", p, OwnNightAction(p),
                          conversation_history, << >>, << >>)
    /\ pc' = "day_wait"
    /\ UNCHANGED << configVars, callVars, sharedVars, phase, error, setupVars, nightVars, dayVars,
                    vote_count, last_count, is_tie_breaker, voter, vote_round,
                    asked, vote, warnings, narration, endVars >>

\* the rest of generate_response (add_to_history) and of
\* participate_in_conversation
DayRespond ==
    /\ pc = "day_wait"
    /\ \E response \in Utterances :
         conversation_history' =
             Append(conversation_history,
                    [ player_id |-> player_names[pending.player],
                      content |-> response ])
    /\ pending' = NoRequest
    /\ position' = position + 1
    /\ pc' = "day_ask"
    /\ UNCHANGED << configVars, callVars, sharedVars, phase, error, setupVars, nightVars, round_num,
                    round_players, vote_count, last_count, is_tie_breaker,
                    voter, vote_round, asked, vote, warnings, narration,
                    endVars >>

\* the round's for loop is over
DayRoundEnds ==
    /\ pc = "day_ask"
    /\ position = Len(round_players)
    /\ pc' = "day_round"
    /\ UNCHANGED << configVars, callVars, sharedVars, phase, error, setupVars, nightVars, dayVars,
                    voteVars, narration, endVars >>

\* the round loop is over
DayEnd ==
    /\ pc = "day_round"
    /\ round_num >= total_rounds
    /\ narration' = Append(narration, "discussion_ended")
    /\ pc' = "voting"
    /\ UNCHANGED << configVars, callVars, sharedVars, phase, error, setupVars, nightVars, dayVars,
                    voteVars, endVars >>

(***************************************************************************)
(* ConversationManager.generate_vote / generate_tie_vote: from the         *)
(* oracle's text to the vote.                                              *)
(***************************************************************************)
\* what the oracle may answer: a word alone, in quotes, with a final period,
\* or inside a sentence; the word is a PLAYER_COLORS id or some other word
Forms == { "bare", "quoted", "period", "sentence" }
Words == Range(AllNames) \cup { "nobody" }
VoteResponses == [ form : Forms, word : Words ]

\* the text after strip() and the three replace() calls, when it holds a
\* space: it is no id
Sentence(word) == "I vote for " \o word

\* vote.strip().replace(...): then, if the text holds a space, the first of
\* candidates found in it, and the text itself otherwise
\* (candidates: PLAYER_COLORS.keys() for a vote, tied_players for a revote)
CleanVote(response, candidates) ==
    IF response.form = "sentence"
    THEN IF response.word \in Range(candidates) THEN response.word
         ELSE Sentence(response.word)
    ELSE response.word

(***************************************************************************)
(* Game._voting_phase, _collect_votes, _get_max_voted_players,             *)
(* _handle_tie_vote, _announce_results, _determine_winner, _end_game.      *)
(***************************************************************************)
\* max(vote_count.values())
MaxVotes(count) == CHOOSE m \in Range(count) : \A i \in DOMAIN count : count[i] <= m

\* GetMaxVotedPlayers keeping one player only: [max(vote_count, key=...)]
GetFirstMaxVoted(count) ==
    IF count = << >> THEN << >>
    ELSE << CHOOSE p \in DOMAIN count :
               /\ \A q \in DOMAIN count : count[q] <= count[p]
               /\ \A q \in DOMAIN count : count[q] = count[p] => p <= q >>

\* _get_max_voted_players: [] for an empty tally, else the players holding
\* the maximum, in the tally's order
GetMaxVotedPlayers(count) ==
    IF count = << >> THEN << >>
    ELSE LET max_votes == MaxVotes(count)
             HasMax(p) == count[p] = max_votes
         IN SelectSeq([ p \in DOMAIN count |-> p ], HasMax)

\* [p.player_id for p in ...]
PlayerIds(ps) == [ i \in DOMAIN ps |-> player_names[ps[i]] ]

\* {player: 0 for player in self.players}
ZeroCount == [ p \in Players |-> 0 ]

\* player_dict = {p.player_id: p for p in self.players}: the player an id
\* names (the last one, should ids repeat), 0 when it names none
PlayerDict(id) ==
    LET named == { p \in Players : player_names[p] = id }
    IN IF named = {} THEN 0 ELSE CHOOSE p \in named : \A q \in named : q <= p

\* IsTie with the bound off by one: a tie of two goes unnoticed
IsTieAboveTwo(count) == Len(GetMaxVotedPlayers(count)) > 2

\* the condition of the while loop of _voting_phase
IsTie(count) == Len(GetMaxVotedPlayers(count)) > 1

\* Voters with a revote asked of the tied players only
VotersTiedOnly ==
    IF is_tie_breaker THEN GetMaxVotedPlayers(last_count)
    ELSE [ p \in 1..Len(assigned_role) |-> p ]

\* for player in self.players: the voters of a round, in order
Voters == PlayerList

\* the tally the revote request of _collect_votes is built from: its own
\* vote_count, the tally of the round in progress
RevoteTally == vote_count

VotingBegin ==
    /\ pc = "voting"
    /\ phase' = "voting"
    /\ narration' = Append(narration, "voting_phase")
    /\ vote_count' = ZeroCount
    /\ is_tie_breaker' = FALSE
    /\ voter' = 0
    /\ vote_round' = 1
    /\ asked' = << >>
    /\ warnings' = << >>
    /\ pc' = "vote_ask"
    /\ UNCHANGED << configVars, callVars, sharedVars, error, setupVars, nightVars, dayVars,
                    last_count, pending, vote, endVars >>

\* VoteAsk without waiting for the answer: the requests of a round are
\* issued together, as asyncio.gather over the players would
VoteAskNoWait ==
    /\ pc = "vote_ask"
    /\ Len(asked) < Len(Voters)
    /\ LET p == Voters[Len(asked) + 1] IN
       /\ pending' = Request("vote", p, OwnNightAction(p), conversation_history,
                             << >>, << >>)
       /\ asked' = Append(asked, p)
    /\ pc' = IF Len(asked') = Len(Voters) THEN "vote_wait" ELSE "vote_ask"
    /\ UNCHANGED << configVars, callVars, sharedVars, phase, error, setupVars, nightVars, dayVars,
                    vote_count, last_count, is_tie_breaker, voter, vote_round,
                    vote, warnings, narration, endVars >>

\* cast_vote / cast_tie_vote up to create_completion
VoteAsk ==
    /\ pc = "vote_ask"
    /\ voter < Len(Voters)
    /\ LET p == Voters[voter + 1] IN
       /\ pending' =
            IF is_tie_breaker
            THEN Request("tie_vote", p, OwnNightAction(p), conversation_history,
                         PlayerIds(GetMaxVotedPlayers(RevoteTally)), RevoteTally)
            ELSE Request("vote", p, OwnNightAction(p), conversation_history,
                         << >>, << >>)
       /\ asked' = Append(asked, p)
    /\ pc' = "vote_wait"
    /\ UNCHANGED << configVars, callVars, sharedVars, phase, error, setupVars, nightVars, dayVars,
                    vote_count, last_count, is_tie_breaker, voter, vote_round,
                    vote, warnings, narration, endVars >>

\* Counted testing the PLAYER_COLORS ids instead of the roster
CountedAnyColor(v) == v \in Range(AllNames)

\* whether _collect_votes counts the vote: vote in player_dict
Counted(v) == PlayerDict(v) # 0

\* vote_count[player_dict[vote]] += 1
AddVote(count, v) == [ count EXCEPT ![PlayerDict(v)] = @ + 1 ]

\* the oracle answers: the rest of generate_vote / generate_tie_vote, then
\* the tally or the warning
VoteRespond ==
    /\ pc = "vote_wait"
    /\ \E response \in VoteResponses :
         LET v == CleanVote(response,
                            IF pending.kind = "tie_vote" THEN pending.tied
                            ELSE AllNames)
         IN /\ vote' = v
            /\ IF Counted(v)
               THEN /\ vote_count' = AddVote(vote_count, v)
                    /\ warnings' = warnings
               ELSE /\ vote_count' = vote_count
                    /\ warnings' = Append(warnings, pending.player)
    /\ pending' = NoRequest
    /\ voter' = voter + 1
    /\ pc' = "vote_ask"
    /\ UNCHANGED << configVars, callVars, sharedVars, phase, error, setupVars, nightVars, dayVars,
                    last_count, is_tie_breaker, vote_round, asked, narration,
                    endVars >>

\* TieBreak with a tally that lives across rounds: the revote adds to it
TieBreakKeepsTally ==
    /\ pc = "vote_ask"
    /\ voter = Len(Voters)
    /\ IsTie(vote_count)
    /\ vote_round < MaxVoteRounds
    /\ last_count' = vote_count
    /\ narration' = Append(narration, "tie")
    /\ is_tie_breaker' = TRUE
    /\ voter' = 0
    /\ vote_round' = vote_round + 1
    /\ asked' = << >>
    /\ warnings' = << >>
    /\ pc' = "vote_ask"
    /\ UNCHANGED << configVars, callVars, sharedVars, phase, error, setupVars, nightVars, dayVars,
                    vote_count, pending, vote, endVars >>

\* _collect_votes returns a tally with several players at the maximum:
\* _handle_tie_vote, then _collect_votes(is_tie_breaker=True) begins
TieBreak ==
    /\ pc = "vote_ask"
    /\ voter = Len(Voters)
    /\ IsTie(vote_count)
    /\ vote_round < MaxVoteRounds
    /\ last_count' = vote_count
    /\ narration' = Append(narration, "tie")
    /\ vote_count' = ZeroCount
    /\ is_tie_breaker' = TRUE
    /\ voter' = 0
    /\ vote_round' = vote_round + 1
    /\ asked' = << >>
    /\ warnings' = << >>
    /\ pc' = "vote_ask"
    /\ UNCHANGED << configVars, callVars, sharedVars, phase, error, setupVars, nightVars, dayVars,
                    pending, vote, endVars >>

\* Resolve giving up after one revote: the tally of a tie-break round is
\* accepted as it is
ResolveAfterRevote ==
    /\ pc = "vote_ask"
    /\ voter = Len(Voters)
    /\ (is_tie_breaker \/ ~ IsTie(vote_count))
    /\ last_count' = vote_count
    /\ pc' = "announce"
    /\ UNCHANGED << configVars, callVars, sharedVars, phase, error, setupVars, nightVars, dayVars,
                    vote_count, is_tie_breaker, voter, vote_round, pending,
                    asked, vote, warnings, narration, endVars >>

\* Resolve with a loop that does not stop on a single leader: it announces
\* a tie and collects the votes again
ResolveLoops ==
    /\ pc = "vote_ask"
    /\ voter = Len(Voters)
    /\ ~ IsTie(vote_count)
    /\ vote_round < MaxVoteRounds
    /\ last_count' = vote_count
    /\ narration' = Append(narration, "tie")
    /\ vote_count' = ZeroCount
    /\ is_tie_breaker' = TRUE
    /\ voter' = 0
    /\ vote_round' = vote_round + 1
    /\ asked' = << >>
    /\ warnings' = << >>
    /\ pc' = "vote_ask"
    /\ UNCHANGED << configVars, callVars, sharedVars, phase, error, setupVars,
                    nightVars, dayVars, pending, vote, endVars >>

\* _collect_votes returns a tally the while loop of _voting_phase accepts
Resolve ==
    /\ pc = "vote_ask"
    /\ voter = Len(Voters)
    /\ ~ IsTie(vote_count)
    /\ last_count' = vote_count
    /\ pc' = "announce"
    /\ UNCHANGED << configVars, callVars, sharedVars, phase, error, setupVars, nightVars, dayVars,
                    vote_count, is_tie_breaker, voter, vote_round, pending,
                    asked, vote, warnings, narration, endVars >>

\* max(vote_count, key=vote_count.get): the first player holding the maximum
EliminatedPlayer(count) ==
    CHOOSE p \in DOMAIN count :
        /\ count[p] = MaxVotes(count)
        /\ \A q \in DOMAIN count : count[q] = MaxVotes(count) => p <= q

\* a call of _get_max_voted_players returns
CallGetMaxVotedPlayers ==
    /\ call_state = "called"
    /\ call_result' = GetMaxVotedPlayers(call_count)
    /\ call_state' = "returned"
    /\ UNCHANGED << configVars, phase, pc, error, setupVars, nightVars, dayVars,
                    voteVars, narration, endVars, call_count, swap_state,
                    swap_args, swap_result, sharedVars >>

\* DetermineWinner reading the card dealt instead of the card held
DetermineWinnerByAssigned(p) ==
    IF assigned_role[p] = "Werewolf" THEN "Village" ELSE "Werewolf"

\* _determine_winner
DetermineWinner(p) ==
    IF current_role[p] = "Werewolf" THEN "Village" ELSE "Werewolf"

\* _announce_results
AnnounceResults ==
    /\ pc = "announce"
    /\ last_count # << >>
    /\ eliminated' = EliminatedPlayer(last_count)
    /\ winner' = DetermineWinner(eliminated')
    /\ narration' = narration \o
         << "final_results",
            IF winner' = "Village" THEN "village_wins" ELSE "werewolf_wins" >>
    /\ vote_log' = vote_log \o FinalVoteCount("this", Len(assigned_role))
                             \o << GameResult("this") >>
    /\ pc' = "end"
    /\ UNCHANGED << configVars, callVars, other_pc, phase, error, setupVars, nightVars, dayVars,
                    voteVars >>

\* EndGame naming the last phase "end"
EndGameNamedEnd ==
    /\ pc = "end"
    /\ phase' = "end"
    /\ narration' = Append(narration, "game_over")
    /\ pc' = "done"
    /\ UNCHANGED << configVars, callVars, sharedVars, error, setupVars, nightVars, dayVars, voteVars,
                    endVars >>

\* _end_game
EndGame ==
    /\ pc = "end"
    /\ phase' = "ended"
    /\ narration' = Append(narration, "game_over")
    /\ pc' = "done"
    /\ UNCHANGED << configVars, callVars, sharedVars, error, setupVars, nightVars, dayVars, voteVars,
                    endVars >>

(***************************************************************************)
(* A second game on the same roster, started by another !play while this   *)
(* one runs: the steps of its Game.start that touch LOG_PATHS.  The event  *)
(* loop runs them only while this game waits in an await ctx.send(...).    *)
(***************************************************************************)
\* AtSuspension with every await taken for a suspension point: the event
\* loop may run the other game between two night actions
AtSuspensionEveryAwait ==
    pc \in { "start", "night", "night_actions", "day", "voting", "announce",
             "end", "done" }

\* this game is at, or about to reach without touching a log, the await of
\* a ctx.send; the night actions and the oracle calls do not yield
AtSuspension ==
    \/ pc \in { "start", "night", "day", "voting", "announce", "end", "done" }
    \/ pc = "night_actions" /\ night_done = << >>

\* this game's variables but the night-action log
gameFrame == << configVars, callVars, phase, pc, error, setupVars, night_done,
               cm_night_actions, dayVars, voteVars, narration, endVars >>

\* a record the second game's participant wrote; what it did is left out
OtherGameRecord == Record("other_game", << >>, << >>)

\* OtherGameStart with logs of its own
OtherGameStartOwnLogs ==
    /\ AtSuspension
    /\ other_pc = "idle"
    /\ other_pc' = "night"
    /\ UNCHANGED << gameFrame, night_file, vote_log >>

\* the second game's _initialize_logs
OtherGameStart ==
    /\ AtSuspension
    /\ other_pc = "idle"
    /\ night_file' = EmptyMap
    /\ vote_log' = << HeaderLine >>
    /\ other_pc' = "night"
    /\ UNCHANGED gameFrame

\* the second game's _night_phase: record_night_action of each of its players
OtherGameNight ==
    /\ AtSuspension
    /\ other_pc = "night"
    /\ night_file' = [ k \in DOMAIN night_file \cup Range(player_names) |->
                         IF k \in Range(player_names) THEN OtherGameRecord
                         ELSE night_file[k] ]
    /\ other_pc' = "voting"
    /\ UNCHANGED << gameFrame, vote_log >>

\* the second game's _announce_results, the first with-block
OtherGameCounts ==
    /\ AtSuspension
    /\ other_pc = "voting"
    /\ vote_log' = vote_log \o FinalVoteCount("other", Len(player_names))
    /\ other_pc' = "result"
    /\ UNCHANGED << gameFrame, night_file >>

\* the second game's _announce_results, the second with-block
OtherGameResult ==
    /\ AtSuspension
    /\ other_pc = "result"
    /\ vote_log' = Append(vote_log, GameResult("other"))
    /\ other_pc' = "done"
    /\ UNCHANGED << gameFrame, night_file >>

(***************************************************************************)
(* Specifications.                                                         *)
(***************************************************************************)
\* the first n ids of the !play roster
Roster(n) == SubSeq(AllNames, 1, n)

\* the reference deck with one Villager instead of three
ShortDeck == << "Werewolf", "Werewolf", "Seer", "Robber", "Troublemaker",
                "Villager" >>

\* a deck of five cards without Seer
TinyDeck == << "Werewolf", "Robber", "Troublemaker", "Villager", "Villager" >>

\* what the night-action log may hold when a game is constructed
LogFiles == { EmptyMap, StaleFile }

\* role assignment alone, for every roster smaller than the deck
InitDeal ==
    \E n \in 1..Len(AllNames), roles \in { ReferenceDeck, ShortDeck, TinyDeck },
       file \in LogFiles :
        /\ n < Len(roles)
        /\ InitWith(Roster(n), roles, ConversationRounds, file)
        /\ NoCall

NextDeal == Start \/ AssignRoles

SpecDeal == InitDeal /\ [][NextDeal]_vars

\* the night phase on a roster of NumPlayers
InitNight ==
    \E file \in LogFiles :
        /\ InitWith(Roster(NumPlayers), ShortDeck, ConversationRounds, file)
        /\ NoCall

NextNight ==
    \/ Start
    \/ AssignRoles
    \/ NightBegin
    \/ \E p \in Players : WerewolfSeesPack(p)
    \/ \E p \in Players : WerewolfPeeksCenter(p)
    \/ \E p \in Players : SeerPeeksPlayer(p)
    \/ \E p \in Players : SeerPeeksCenter(p)
    \/ \E p \in Players : RobberSwaps(p)
    \/ \E p \in Players : RobberPasses(p)
    \/ \E p \in Players : TroublemakerSwaps(p)
    \/ \E p \in Players : TroublemakerPasses(p)
    \/ \E p \in Players : VillagerSleeps(p)
    \/ NightEnd

SpecNight == InitNight /\ [][NextNight]_vars

\* a whole game without discussion rounds, on a roster of NumPlayers
Init ==
    \E file \in LogFiles :
        /\ InitWith(Roster(NumPlayers), TinyDeck, 0, file)
        /\ NoCall

Next ==
    \/ Start
    \/ AssignRoles
    \/ NightBegin
    \/ \E p \in Players : WerewolfPeeksCenter(p)
    \/ \E p \in Players : RobberSwaps(p)
    \/ \E p \in Players : RobberPasses(p)
    \/ \E p \in Players : TroublemakerSwaps(p)
    \/ \E p \in Players : TroublemakerPasses(p)
    \/ \E p \in Players : VillagerSleeps(p)
    \/ NightEnd
    \/ DayBegin
    \/ DayEnd
    \/ VotingBegin
    \/ VoteAsk
    \/ VoteRespond
    \/ OracleFails
    \/ TieBreak
    \/ Resolve
    \/ AnnounceResults
    \/ EndGame

Spec == Init /\ [][Next]_vars

\* three decks a configuration may hold: as many cards as a roster of
\* NumPlayers (with one Werewolf, with two), and one with a role that
\* create_player does not know
TrioDeck == << "Werewolf", "Seer", "Robber" >>
PackDeck == << "Werewolf", "Werewolf", "Villager" >>
MinionDeck == << "Robber", "Troublemaker", "Villager", "Minion" >>

\* role assignment and the night on rosters smaller than, as large as and
\* larger than the deck, and on a deck with an unknown role
InitConfig ==
    \E n \in 1..(NumPlayers + 1), roles \in { TrioDeck, PackDeck, MinionDeck } :
        /\ n <= Len(AllNames)
        /\ InitWith(Roster(n), roles, ConversationRounds, EmptyMap)
        /\ NoCall

NextConfig ==
    \/ Start
    \/ AssignRoles
    \/ AssignRolesFails
    \/ NightBegin
    \/ \E p \in Players : WerewolfSeesPack(p)
    \/ \E p \in Players : WerewolfPeeksCenter(p)
    \/ \E p \in Players : SeerPeeksPlayer(p)
    \/ \E p \in Players : SeerPeeksCenter(p)
    \/ \E p \in Players : RobberSwaps(p)
    \/ \E p \in Players : RobberPasses(p)
    \/ \E p \in Players : TroublemakerSwaps(p)
    \/ \E p \in Players : TroublemakerShort(p)
    \/ \E p \in Players : TroublemakerPasses(p)
    \/ \E p \in Players : VillagerSleeps(p)
    \/ \E p \in Players : NightActionFails(p)
    \/ NightEnd

SpecConfig == InitConfig /\ [][NextConfig]_vars

\* a deck with three Robber cards
RobberDeck == << "Robber", "Robber", "Robber", "Troublemaker", "Werewolf" >>

\* the two swaps on their own: every deal of a deck to NumPlayers or one
\* more participants that deals a Robber and a Troublemaker, every target
\* of the Robber and every two targets of the Troublemaker
InitSwap ==
    \E n \in { NumPlayers, NumPlayers + 1 }, roles \in { TinyDeck, RobberDeck } :
      \E all_roles \in Shuffles(roles) :
        \E robber, troublemaker, target, first, second \in 1..n :
          LET dealt == DealtRoles(all_roles, n) IN
          /\ n < Len(roles)
          /\ dealt[robber] = "Robber"
          /\ dealt[troublemaker] = "Troublemaker"
          /\ target # robber
          /\ first # troublemaker /\ second # troublemaker /\ first # second
          /\ InitWith(Roster(n), roles, ConversationRounds, EmptyMap)
          /\ call_state = "idle"
          /\ call_count = << >>
          /\ call_result = << >>
          /\ swap_state = "called"
          /\ swap_args = SwapArgs(dealt, robber, target, first, second)
          /\ swap_result = SwapResult(<< >>, << >>)

SpecSwap == InitSwap /\ [][ApplySwapsBothOrders]_vars

\* the night with every role and one discussion round, on a roster of
\* NumPlayers
InitRoles ==
    \E file \in LogFiles :
        /\ InitWith(Roster(NumPlayers), ShortDeck, 1, file)
        /\ NoCall

NextRoles ==
    \/ Start
    \/ AssignRoles
    \/ NightBegin
    \/ \E p \in Players : WerewolfSeesPack(p)
    \/ \E p \in Players : WerewolfPeeksCenter(p)
    \/ \E p \in Players : SeerPeeksPlayer(p)
    \/ \E p \in Players : SeerPeeksCenter(p)
    \/ \E p \in Players : RobberSwaps(p)
    \/ \E p \in Players : RobberPasses(p)
    \/ \E p \in Players : TroublemakerSwaps(p)
    \/ \E p \in Players : TroublemakerPasses(p)
    \/ \E p \in Players : VillagerSleeps(p)
    \/ NightEnd
    \/ DayBegin
    \/ DayRoundBegins
    \/ DayAsk
    \/ DayRespond
    \/ DayRoundEnds
    \/ DayEnd

SpecRoles == InitRoles /\ [][NextRoles]_vars

\* a whole game with the configured discussion rounds, on a roster of
\* NumSpeakers
InitGame ==
    \E file \in LogFiles :
        /\ InitWith(Roster(NumSpeakers), TinyDeck, ConversationRounds, file)
        /\ NoCall

NextGame ==
    \/ Start
    \/ AssignRoles
    \/ NightBegin
    \/ \E p \in Players : WerewolfPeeksCenter(p)
    \/ \E p \in Players : RobberSwaps(p)
    \/ \E p \in Players : RobberPasses(p)
    \/ \E p \in Players : TroublemakerShort(p)
    \/ \E p \in Players : TroublemakerPasses(p)
    \/ \E p \in Players : VillagerSleeps(p)
    \/ NightEnd
    \/ DayBegin
    \/ DayRoundBegins
    \/ DayAsk
    \/ DayRespond
    \/ DayRoundEnds
    \/ DayEnd
    \/ VotingBegin
    \/ VoteAsk
    \/ VoteRespond
    \/ OracleFails
    \/ TieBreak
    \/ Resolve
    \/ AnnounceResults
    \/ EndGame

SpecGame == InitGame /\ [][NextGame]_vars

\* two games at once: a whole game without discussion rounds on a roster of
\* NumSpeakers, and a second game on the same logs
InitShared ==
    /\ InitWith(Roster(NumSpeakers), TinyDeck, 0, EmptyMap)
    /\ NoCall

NextShared ==
    \/ Start
    \/ AssignRoles
    \/ NightBegin
    \/ \E p \in Players : WerewolfPeeksCenter(p)
    \/ \E p \in Players : RobberSwaps(p)
    \/ \E p \in Players : RobberPasses(p)
    \/ \E p \in Players : TroublemakerShort(p)
    \/ \E p \in Players : TroublemakerPasses(p)
    \/ \E p \in Players : VillagerSleeps(p)
    \/ NightEnd
    \/ DayBegin
    \/ DayEnd
    \/ VotingBegin
    \/ VoteAsk
    \/ VoteRespond
    \/ TieBreak
    \/ Resolve
    \/ AnnounceResults
    \/ EndGame
    \/ OtherGameStart
    \/ OtherGameNight
    \/ OtherGameCounts
    \/ OtherGameResult

SpecShared == InitShared /\ [][NextShared]_vars

\* a whole game without discussion rounds on a roster of NumSpeakers, with
\* an oracle that always answers; the event loop resumes Game.start
\* whenever the send or the call it waits for has returned
InitVote ==
    /\ InitWith(Roster(NumSpeakers), TinyDeck, 0, EmptyMap)
    /\ NoCall

NextVote ==
    \/ Start
    \/ AssignRoles
    \/ NightBegin
    \/ \E p \in Players : WerewolfPeeksCenter(p)
    \/ \E p \in Players : RobberSwaps(p)
    \/ \E p \in Players : RobberPasses(p)
    \/ \E p \in Players : TroublemakerShort(p)
    \/ \E p \in Players : TroublemakerPasses(p)
    \/ \E p \in Players : VillagerSleeps(p)
    \/ NightEnd
    \/ DayBegin
    \/ DayEnd
    \/ VotingBegin
    \/ VoteAsk
    \/ VoteRespond
    \/ TieBreak
    \/ Resolve
    \/ AnnounceResults
    \/ EndGame

SpecVote == InitVote /\ [][NextVote]_vars /\ WF_vars(NextVote)

\* the reference configuration, GAME_CONFIG["roles"] dealt to the !play
\* roster: every deal, and the night of every deal up to the turn of the
\* Troublemaker
InitReference ==
    /\ InitWith(AllNames, ReferenceDeck, ConversationRounds, EmptyMap)
    /\ NoCall

NextReference ==
    \/ Start
    \/ AssignRoles
    \/ NightBegin
    \/ \E p \in Players : WerewolfSeesPack(p)
    \/ \E p \in Players : WerewolfPeeksCenter(p)
    \/ \E p \in Players : SeerPeeksPlayer(p)
    \/ \E p \in Players : SeerPeeksCenter(p)
    \/ \E p \in Players : RobberSwaps(p)
    \/ \E p \in Players : RobberPasses(p)

SpecReference == InitReference /\ [][NextReference]_vars

\* _get_max_voted_players on its own, on every tally of up to NumPlayers
\* players with counts up to MaxCount
InitTally ==
    \E n \in 1..NumPlayers :
      \E count \in [ 1..n -> 0..MaxCount ] :
        /\ InitWith(Roster(n), ReferenceDeck, ConversationRounds, EmptyMap)
        /\ call_state = "called"
        /\ call_count = count
        /\ call_result = << >>
        /\ NoSwapCall

SpecTally == InitTally /\ [][CallGetMaxVotedPlayers]_vars

(***************************************************************************)
(* Claims.                                                                 *)
(***************************************************************************)
\* C1: once results are announced for the eliminated participant E, the
\* winner (computed and announced) is Village exactly when E's currentRole
\* is Werewolf and Werewolf otherwise, whatever E's assignedRole is.
C1_WinnerFollowsCurrentRole ==
    eliminated # 0 =>
        /\ winner \in { "Village", "Werewolf" }
        /\ winner = "Village" <=> current_role[eliminated] = "Werewolf"
        /\ "village_wins" \in Range(narration)
             <=> current_role[eliminated] = "Werewolf"
        /\ "werewolf_wins" \in Range(narration)
             <=> current_role[eliminated] # "Werewolf"

\* C1 witness: a participant dealt a non-Werewolf card who holds Werewolf
\* after a swap is eliminated, and Village wins.
C1_Witness ==
    /\ eliminated # 0
    /\ assigned_role[eliminated] # "Werewolf"
    /\ current_role[eliminated] = "Werewolf"
    /\ winner = "Village"
    /\ "village_wins" \in Range(narration)

\* the number of cards of role r held by the participants and the center
CardsInPlay(r) == Count(current_role, r) + Count(center_roles, r)

\* C2: after every step of the night phase the currentRole values together
\* with the center pile are, as a multiset, the deck.
C2_NightPermutesRoles ==
    phase = "night" =>
        \A r \in KnownRoles \cup Range(deck) : CardsInPlay(r) = Count(deck, r)

\* C2 witness: the night is over, after a Robber's swap and a Troublemaker's
\* swap, and some participant holds another card than it was dealt.
C2_Witness ==
    /\ phase = "night" /\ pc = "day"
    /\ \E a, b \in DOMAIN night_file :
         /\ night_file[a].kind = "robber_swap"
         /\ night_file[b].kind = "troublemaker_swap"
    /\ current_role # assigned_role

\* C3: after role assignment every participant holds one assigned role, the
\* assigned roles and the center pile are together the deck, and the center
\* pile has deck size minus participant count cards (3 for the reference
\* deck and 5 participants).
C3_DealSplitsDeck ==
    pc = "night" =>
        /\ DOMAIN assigned_role = DOMAIN player_names
        /\ \A p \in DOMAIN assigned_role : assigned_role[p] \in Range(deck)
        /\ \A r \in KnownRoles \cup Range(deck) :
             Count(assigned_role, r) + Count(center_roles, r) = Count(deck, r)
        /\ Len(center_roles) = Len(deck) - Len(player_names)
        /\ (deck = ReferenceDeck /\ Len(player_names) = 5)
             => Len(center_roles) = 3

\* C3 witness: the reference deck dealt to five participants.
C3_Witness ==
    /\ pc = "night"
    /\ deck = ReferenceDeck
    /\ Len(player_names) = 5
    /\ Len(assigned_role) = 5
    /\ Len(center_roles) = 3

\* the precedence of a role in the night phase, as the claim states it
Precedence(role) ==
    CASE role = "Werewolf" -> 1
      [] role = "Seer" -> 2
      [] role = "Robber" -> 3
      [] role = "Troublemaker" -> 4
      [] role = "Villager" -> 5

\* C4: night actions run in precedence of assigned role, in registration
\* order within a role, and when the night is over every participant has
\* acted exactly once.
C4_NightOrder ==
    /\ \A i, j \in DOMAIN night_done :
         i < j =>
           LET a == night_done[i]
               b == night_done[j]
           IN \/ Precedence(assigned_role[a]) < Precedence(assigned_role[b])
              \/ /\ Precedence(assigned_role[a]) = Precedence(assigned_role[b])
                 /\ a < b
    /\ (phase = "night" /\ pc = "day") =>
         /\ Len(night_done) = Len(player_names)
         /\ Range(night_done) = DOMAIN player_names
    /\ phase \in { "setup", "role_assignment" } => night_done = << >>

\* C4 witness: the night is over with two Werewolves and a Robber or a
\* Troublemaker among the participants.
C4_Witness ==
    /\ phase = "night" /\ pc = "day"
    /\ Count(assigned_role, "Werewolf") = 2
    /\ \E p \in Players : assigned_role[p] \in { "Robber", "Troublemaker" }
    /\ Len(night_done) = Len(player_names)

\* p holds strictly more votes than every other participant of the tally
UniqueTop(count, p) == \A q \in DOMAIN count : q # p => count[q] < count[p]

\* C5: results are announced only on the tally of the last voting round,
\* in which one participant holds strictly more votes than every other,
\* and the eliminated participant is that one.
C5_ResultsNeedUniquePlurality ==
    /\ pc \in { "announce", "end", "done" } =>
         /\ last_count = vote_count
         /\ \E p \in DOMAIN last_count : UniqueTop(last_count, p)
    /\ eliminated # 0 =>
         /\ pc \in { "end", "done" }
         /\ eliminated \in DOMAIN last_count
         /\ UniqueTop(last_count, eliminated)
    /\ "final_results" \in Range(narration) => eliminated # 0

\* C5 witness: a participant is eliminated by the tie-break round that
\* followed a tied first round.
C5_Witness ==
    /\ eliminated # 0
    /\ vote_round = 2
    /\ UniqueTop(last_count, eliminated)
    /\ "tie" \in Range(narration)

\* C6: the list _get_max_voted_players returns holds exactly the
\* participants whose count is the maximum, each once, and is never empty
\* for a non-empty tally; {A:2, B:2, C:1} gives {A, B}, {A:3, B:1, C:1}
\* gives {A}, and an all-zero tally gives every participant.
C6_PluralitySet ==
    call_state = "returned" =>
        /\ Range(call_result) =
             { p \in DOMAIN call_count :
                 \A q \in DOMAIN call_count : call_count[q] <= call_count[p] }
        /\ Len(call_result) = Cardinality(Range(call_result))
        /\ call_result # << >>
        /\ call_count = << 2, 2, 1 >> => call_result = << 1, 2 >>
        /\ call_count = << 3, 1, 1 >> => call_result = << 1 >>
        /\ (\A p \in DOMAIN call_count : call_count[p] = 0)
             => Range(call_result) = DOMAIN call_count

\* C6 witness: the tally {A:2, B:2, C:1} has been handed over and {A, B}
\* returned.
C6_Witness ==
    /\ call_state = "returned"
    /\ call_count = << 2, 2, 1 >>
    /\ call_result = << 1, 2 >>

\* C7: a returned vote that is no participant's id leaves the tally as it
\* is, adds a warning naming the voter and lets the round go on; any other
\* vote adds one to the entry of the participant it names and no warning.
\* So a round's tally sums to the votes returned minus the warnings: at
\* most the participant count, and less once a vote was invalid.
C7_InvalidVoteWarned ==
    /\ [][ (pc = "vote_wait" /\ pc' = "vote_ask") =>
             IF vote' \in Range(player_names)
             THEN /\ \E p \in DOMAIN vote_count :
                       /\ player_names[p] = vote'
                       /\ vote_count' = [ vote_count EXCEPT ![p] = @ + 1 ]
                  /\ warnings' = warnings
             ELSE /\ vote_count' = vote_count
                  /\ warnings' = Append(warnings, pending.player)
                  /\ error' = "none"
                  /\ voter' = voter + 1 ]_vars
    /\ [](pc \in { "vote_ask", "vote_wait" } =>
             /\ SumSeq(vote_count) = voter - Len(warnings)
             /\ SumSeq(vote_count) <= Len(player_names)
             /\ warnings # << >> => SumSeq(vote_count) < Len(player_names))

\* C7 witness: a round is complete in which the first voter was warned and
\* every later vote was counted.
C7_Witness ==
    /\ pc = "vote_ask"
    /\ voter = Len(player_names)
    /\ warnings = << 1 >>
    /\ vote \in Range(player_names)
    /\ SumSeq(vote_count) = Len(player_names) - 1

\* C8: in every voting round the requests go to the participants in
\* registration order, one each, tied or not; a round ends (a revote
\* begins, or the results are due) only when all N have been asked.
C8_EveryoneAskedOnce ==
    /\ [](pc \in { "vote_ask", "vote_wait" } =>
             /\ asked = [ i \in 1..Len(asked) |-> i ]
             /\ Len(asked) <= Len(player_names)
             /\ Len(asked) = voter + (IF pc = "vote_wait" THEN 1 ELSE 0)
             /\ pc = "vote_wait" =>
                  /\ pending.player = Len(asked)
                  /\ pending.kind = IF vote_round = 1 THEN "vote" ELSE "tie_vote")
    /\ [][ (vote_round >= 1 /\ (vote_round' # vote_round \/ pc' = "announce"))
             => /\ asked = [ i \in DOMAIN player_names |-> i ]
                /\ voter = Len(player_names) ]_vars

\* C8 witness: a tie-break round is complete, everyone was asked, and some
\* participant was not among the tied of the round before.
C8_Witness ==
    /\ pc = "vote_ask"
    /\ vote_round = 2
    /\ voter = Len(player_names)
    /\ asked = [ i \in DOMAIN player_names |-> i ]
    /\ \E p, q \in DOMAIN last_count : last_count[p] < last_count[q]

\* C9 (the claim as stated; the code violates it): every revote request
\* carries as tied set the plurality set of the previous round and as vote
\* results the tally of the previous round.
C9_RevoteCarriesPreviousRound ==
    pending.kind = "tie_vote" =>
        /\ pending.tied = PlayerIds(GetMaxVotedPlayers(last_count))
        /\ pending.results = last_count

\* C10 (the claim as stated; the code violates it): in a tie-break round no
\* participant outside the tied set of the previous round holds a vote.
C10_OnlyTiedGainVotes ==
    (is_tie_breaker /\ pc \in { "vote_ask", "vote_wait" }) =>
        \A p \in DOMAIN vote_count :
            p \notin Range(GetMaxVotedPlayers(last_count)) => vote_count[p] = 0

\* two participants or more share the highest count of the tally
Tied(count) ==
    \E p, q \in DOMAIN count :
        /\ p # q
        /\ count[p] = count[q]
        /\ \A r \in DOMAIN count : count[r] <= count[p]

\* a voting round is complete and its tally is tied
RoundTied == pc = "vote_ask" /\ voter = Len(player_names) /\ Tied(vote_count)

C12_PhaseOneOfFive == phase \in { "setup", "night", "day", "voting", "ended" }

\* the values Game.phase takes, in the order Game.start assigns them
PhaseOrder == << "setup", "role_assignment", "night", "day", "voting", "ended" >>

\* C12 (amended): the phase is one of the six values setup,
\* role_assignment, night, day, voting, ended, and no other value.
C12_PhaseOneOfSix == phase \in Range(PhaseOrder)

\* C12 witness: the roles have been dealt and the phase is role_assignment.
C12_Witness ==
    /\ phase = "role_assignment"
    /\ pc = "night"
    /\ Len(assigned_role) = Len(player_names)

\* C13 (the claim as stated; the code violates it): every change of the
\* phase leads to the next phase in the order setup, night, day, voting,
\* ended.
C13_FivePhasesInOrder ==
    [][ phase' # phase =>
          \/ phase = "setup" /\ phase' = "night"
          \/ phase = "night" /\ phase' = "day"
          \/ phase = "day" /\ phase' = "voting"
          \/ phase = "voting" /\ phase' = "ended" ]_vars

\* the announcements made on entering a phase
PhaseAnnouncements ==
    { "roles_assigned", "night_phase", "day_phase", "voting_phase", "game_over" }

\* C13 (amended): every change of the phase leads to the next phase in the
\* order setup, role_assignment, night, day, voting, ended, so no phase is
\* skipped or entered again; a game that has run to completion has
\* announced each phase once; and once the phase is voting or ended no
\* night action runs, no card moves and no discussion turn is taken.
C13_PhasesInOrder ==
    /\ [][ phase' # phase =>
             \E i \in 1..(Len(PhaseOrder) - 1) :
                 phase = PhaseOrder[i] /\ phase' = PhaseOrder[i + 1] ]_vars
    /\ [](pc = "done" =>
             /\ phase = "ended"
             /\ \A a \in PhaseAnnouncements : Count(narration, a) = 1)
    /\ [][ (phase = "voting" \/ phase = "ended") =>
             /\ night_done' = night_done
             /\ night_file' = night_file
             /\ current_role' = current_role
             /\ center_roles' = center_roles
             /\ conversation_history' = conversation_history
             /\ round_num' = round_num
             /\ pending'.kind # "utterance" ]_vars

\* C13 witness: a game with all its discussion turns and a revote has run
\* to completion.
C13_Witness ==
    /\ pc = "done"
    /\ phase = "ended"
    /\ vote_round = 2
    /\ total_rounds > 0
    /\ Len(conversation_history) = total_rounds * Len(player_names)

\* one of the phases night, day, voting, ended has begun
PhaseStarted == phase \in { "night", "day", "voting", "ended" }

\* C14 (the claim as stated; the code violates it): with at least as many
\* participants as cards no phase starts, no participant is created, no
\* night action runs and the game does not complete.
C14_OversizedRosterRejected ==
    Len(player_names) >= Len(deck) =>
        /\ ~ PhaseStarted
        /\ assigned_role = << >>
        /\ night_done = << >>
        /\ pc # "done"

\* C15 (the claim as stated; the code violates it): with a role in the deck
\* that create_player does not know, no phase starts and no night action
\* runs, wherever the shuffle puts the card.
C15_UnknownRoleRejected ==
    (\E i \in DOMAIN deck : deck[i] \notin KnownRoles) =>
        /\ ~ PhaseStarted
        /\ night_done = << >>
        /\ pc \in { "start", "assign", "failed" }

\* the speakers of the utterances from..to of the transcript, in order
Speakers(from, to) ==
    [ i \in 1..(to - from + 1) |-> conversation_history[from + i - 1].player_id ]

\* the day phase is over
DayOver == pc \in { "voting", "vote_ask", "vote_wait", "announce", "end", "done" }

\* C16: the day phase runs the configured number of rounds; the order of a
\* round is a permutation of the roster; the utterances of a round are those
\* of the first speakers of its order, one each; every finished round holds
\* one utterance of every participant; and after the day phase the
\* transcript holds rounds times N utterances, rounds of each participant.
C16_DayRounds ==
    LET N == Len(player_names) IN
    /\ round_num <= total_rounds
    /\ Count(narration, "discussion_round") = round_num
    /\ pc \in { "day_ask", "day_wait" } =>
         /\ round_num >= 1
         /\ Len(round_players) = N
         /\ Range(round_players) = DOMAIN player_names
         /\ position <= N
         /\ pc = "day_wait" => position < N
         /\ Len(conversation_history) = (round_num - 1) * N + position
         /\ Speakers((round_num - 1) * N + 1, (round_num - 1) * N + position)
              = [ i \in 1..position |-> player_names[round_players[i]] ]
    /\ pc = "day_round" => Len(conversation_history) = round_num * N
    /\ \A k \in 1..total_rounds :
         Len(conversation_history) >= k * N =>
             /\ Range(Speakers((k - 1) * N + 1, k * N)) = Range(player_names)
    /\ DayOver =>
         /\ round_num = total_rounds
         /\ Len(conversation_history) = total_rounds * N
         /\ \A p \in DOMAIN player_names :
              Cardinality({ i \in DOMAIN conversation_history :
                  conversation_history[i].player_id = player_names[p] })
                = total_rounds

\* C16 witness: the day phase is over after the configured rounds, and the
\* first two rounds were held in different orders.
C16_Witness ==
    LET N == Len(player_names) IN
    /\ pc = "voting"
    /\ total_rounds = ConversationRounds
    /\ Len(conversation_history) = ConversationRounds * N
    /\ Speakers(1, N) # Speakers(N + 1, 2 * N)

\* s is t or t with entries added at its end
Extends(s, t) == Len(s) >= Len(t) /\ SubSeq(s, 1, Len(t)) = t

\* C17: the request for an utterance carries the whole transcript as it
\* stands, the k-1 utterances made before the k-th, in order; the answer is
\* appended as one entry of the speaker the request was made for; and no
\* step changes, reorders or removes an earlier entry of the transcript.
C17_TranscriptInContext ==
    /\ [](pc = "day_wait" =>
            /\ pending.kind = "utterance"
            /\ pending.history = conversation_history
            /\ Len(pending.history)
                 = (round_num - 1) * Len(player_names) + position
            /\ pending.player = round_players[position + 1])
    /\ [][ Extends(conversation_history', conversation_history) ]_vars
    /\ [][ (pc = "day_wait" /\ pc' = "day_ask") =>
             /\ Len(conversation_history') = Len(pending.history) + 1
             /\ SubSeq(conversation_history', 1, Len(pending.history))
                  = pending.history
             /\ conversation_history'[Len(conversation_history')].player_id
                  = player_names[pending.player] ]_vars

\* C17 witness: the second speaker of the second round is asked, and the
\* transcript in the request ends with the utterance of the first speaker
\* of that round, another participant.
C17_Witness ==
    LET N == Len(player_names) IN
    /\ pc = "day_wait"
    /\ round_num = 2 /\ position = 1
    /\ Len(pending.history) = N + 1
    /\ pending.history[N + 1].player_id = player_names[round_players[1]]
    /\ pending.player = round_players[2]

\* the answers taken into the state so far: utterances in the transcript,
\* votes counted or warned about in this round
Incorporated == Len(conversation_history) + SumSeq(vote_count) + Len(warnings)

\* C18: a request is in flight only while the game waits for its answer; a
\* new request is issued only when none is in flight; and the answer to a
\* request is in the state (one more utterance in the transcript, or one
\* more vote counted or warned about) when the request leaves, so that the
\* requests issued are the answers taken in plus the one in flight.
C18_OneRequestInFlight ==
    /\ [](pending # NoRequest =>
            \/ pc \in { "day_wait", "vote_wait" }
            \/ pc = "failed" /\ error = "OracleError")
    /\ [](pc \in { "day_wait", "vote_wait" } => pending # NoRequest)
    /\ [](pc \in { "vote_ask", "vote_wait" } =>
            Len(asked) = SumSeq(vote_count) + Len(warnings)
                           + (IF pc = "vote_wait" THEN 1 ELSE 0))
    /\ [][ (pending' # pending /\ pending' # NoRequest) =>
             /\ pending = NoRequest
             /\ Incorporated' = Incorporated ]_vars
    /\ [][ (pending' # pending /\ pending # NoRequest) =>
             /\ pending' = NoRequest
             /\ Incorporated' = Incorporated + 1
             /\ pending.kind = "utterance" =>
                  Len(conversation_history') = Len(conversation_history) + 1 ]_vars

\* C18 witness: the second vote request of a round is in flight, after the
\* first answer was counted.
C18_Witness ==
    /\ pc = "vote_wait"
    /\ pending.kind = "vote"
    /\ Len(asked) = 2
    /\ SumSeq(vote_count) = 1
    /\ Len(conversation_history) > 0

\* C19: a failed oracle call ends the game where it stands: the step that
\* fails takes no answer in, keeps the phase and reports the error once; no
\* step follows it, so no retry, no further request, no winner and no ended
\* phase; and a request leaves only by its answer being taken in or by
\* this failure.
C19_OracleFailureAborts ==
    /\ [](error = "OracleError" =>
            /\ pc = "failed"
            /\ phase \in { "day", "voting" }
            /\ winner = "none" /\ eliminated = 0
            /\ narration[Len(narration)] = "error_running_game"
            /\ Count(narration, "error_running_game") = 1
            /\ "game_over" \notin Range(narration)
            /\ "final_results" \notin Range(narration))
    /\ [][ pc # "failed" ]_vars
    /\ [][ (pc \in { "day_wait", "vote_wait" }
              /\ Incorporated' = Incorporated) =>
             /\ error' = "OracleError"
             /\ pc' = "failed"
             /\ phase' = phase
             /\ pending' = pending
             /\ asked' = asked
             /\ narration' = Append(narration, "error_running_game") ]_vars

\* C19 witness: the oracle failed on a revote request, after a whole day
\* phase and a tied round.
C19_Witness ==
    /\ error = "OracleError"
    /\ pc = "failed"
    /\ phase = "voting"
    /\ pending.kind = "tie_vote"
    /\ Len(conversation_history) > 0

\* the participants of the Robber's swap and of the Troublemaker's swap
RobberPair == { swap_args.robber, swap_args.target }
TroublemakerPair == { swap_args.first, swap_args.second }

\* the cards the participants of the two swaps hold at the start
CardsSwapped ==
    { swap_args.roles[p] : p \in RobberPair \cup TroublemakerPair }

\* C20 (the claim as stated; the code violates it): whenever the two swaps
\* share a participant, and so when they act on the same two participants,
\* the two orders end in different current roles.
C20_OverlappingSwapsNeverCommute ==
    (swap_state = "returned" /\ RobberPair \cap TroublemakerPair # {}) =>
        swap_result.robber_first # swap_result.troublemaker_first

\* C20 (amended): when the two swaps share exactly one participant and the
\* three cards involved are not all of one role, the two orders end in
\* different current roles; when they act on the same two participants,
\* either order ends in the starting current roles.
C20_SwapsCommuteOnlyOnSamePair ==
    swap_state = "returned" =>
        /\ (Cardinality(RobberPair \cap TroublemakerPair) = 1
              /\ Cardinality(CardsSwapped) > 1)
             => swap_result.robber_first # swap_result.troublemaker_first
        /\ RobberPair = TroublemakerPair =>
             /\ swap_result.robber_first = swap_args.roles
             /\ swap_result.troublemaker_first = swap_args.roles

\* C20 witness: the Robber swapped with the Troublemaker, the Troublemaker
\* swapped the Robber and a third participant, and the two orders leave the
\* Robber with different cards.
C20_Witness ==
    /\ swap_state = "returned"
    /\ swap_args.roles[swap_args.target] = "Troublemaker"
    /\ swap_args.robber \in TroublemakerPair
    /\ swap_result.robber_first[swap_args.robber]
         # swap_result.troublemaker_first[swap_args.robber]

\* perform_night_action of participant p runs in this step
NightStep(p) ==
    /\ pc = "night_actions"
    /\ NightActor = p
    /\ night_done' = Append(night_done, p)

\* the action record participant p writes in this step
NewRecord(p) == night_file'[player_names[p]]

\* the participants whose current role this step changes
Changed == { q \in DOMAIN current_role : current_role'[q] # current_role[q] }

\* C22: a step that changes a current role is a night action of the Robber
\* swapping (only the Robber and its target change) or of the Troublemaker
\* swapping (only its two targets change); every other night action, pass
\* or not, and every step of the day leaves all current roles as they are.
C22_OnlySwapsChangeRoles ==
    /\ [][ (DOMAIN current_role' = DOMAIN current_role
              /\ current_role' # current_role) =>
             \E p \in Players :
                 /\ phase = "night"
                 /\ NightStep(p)
                 /\ \/ /\ assigned_role[p] = "Robber"
                       /\ NewRecord(p).kind = "robber_swap"
                       /\ \E t \in Players \ {p} :
                            /\ NewRecord(p).ids = << player_names[t] >>
                            /\ Changed \subseteq { p, t }
                    \/ /\ assigned_role[p] = "Troublemaker"
                       /\ NewRecord(p).kind = "troublemaker_swap"
                       /\ \E a, b \in Players \ {p} :
                            /\ a # b
                            /\ NewRecord(p).ids
                                 = << player_names[a], player_names[b] >>
                            /\ Changed \subseteq { a, b } ]_vars
    /\ [][ (\A p \in Players :
               (NightStep(p)
                  /\ NewRecord(p).kind
                       \notin { "robber_swap", "troublemaker_swap" })
               => current_role' = current_role) ]_vars
    /\ [][ (phase # "night" /\ current_role # << >>)
             => current_role' = current_role ]_vars

\* C22 witness: after a night in which the Seer looked at a card and the
\* Robber and the Troublemaker swapped, a discussion turn has been taken and
\* some participant holds another card than it was dealt.
C22_Witness ==
    /\ phase = "day"
    /\ conversation_history # << >>
    /\ current_role # assigned_role
    /\ \E a, b, c \in DOMAIN night_file :
         /\ night_file[a].kind = "robber_swap"
         /\ night_file[b].kind = "troublemaker_swap"
         /\ night_file[c].kind = "seer_player"

\* C23: when the night begins every participant's current role is the role
\* it was dealt, and once roles are dealt no step changes an assigned role.
C23_AssignedRoleFixed ==
    /\ []((pc = "night" \/ (pc = "night_actions" /\ night_done = << >>)) =>
             /\ Len(assigned_role) = Len(player_names)
             /\ Len(player_names) > 0
             /\ current_role = assigned_role)
    /\ [][ (assigned_role # << >>) => assigned_role' = assigned_role ]_vars

\* C23 witness: the night's swaps are over, a participant holds another card
\* than it was dealt, and the discussion is under way.
C23_Witness ==
    /\ phase = "day"
    /\ Len(night_done) = Len(player_names)
    /\ \E p \in Players : current_role[p] # assigned_role[p]

\* C24: from the deal on no step changes the center pile, and it stays the
\* part of the deck that was not dealt.
C24_CenterFixed ==
    /\ [][ (pc \notin { "start", "assign" }) =>
             center_roles' = center_roles ]_vars
    /\ [](pc \notin { "start", "assign", "failed" } =>
             /\ Len(center_roles) = Len(deck) - Len(player_names)
             /\ \A r \in Range(deck) :
                   Count(center_roles, r) + Count(assigned_role, r)
                     = Count(deck, r))

\* C24 witness: the only Werewolf and the Seer have both looked at center
\* cards, the night and the discussion are over, and the pile is whole.
C24_Witness ==
    /\ pc = "voting"
    /\ Len(center_roles) = Len(deck) - Len(player_names)
    /\ \E a, b \in DOMAIN night_file :
         /\ night_file[a].kind = "lone_werewolf"
         /\ night_file[b].kind = "seer_center"

\* C25: a Seer that looks at a participant looks at another participant
\* than itself and records that participant's current role as it is at that
\* moment; a Seer that looks at the center records the cards at two
\* different positions of the center pile.
C25_SeerSeesCurrentRole ==
    [][ (\A p \in Players :
            (NightStep(p) /\ assigned_role[p] = "Seer") =>
            LET r == NewRecord(p) IN
            \/ /\ r.kind = "seer_player"
               /\ r.ids # << player_names[p] >>
               /\ \E t \in Players \ {p} :
                    /\ r.ids = << player_names[t] >>
                    /\ r.roles = << current_role[t] >>
            \/ /\ r.kind = "seer_center"
               /\ r.ids = << >>
               /\ \E i, j \in DOMAIN center_roles :
                    /\ i # j
                    /\ r.roles = << center_roles[i], center_roles[j] >>) ]_vars

\* C25 witness: the Seer looked at a participant whose card was swapped
\* away later in the night, so the record differs from the card it holds now.
C25_Witness ==
    \E p, t \in Players :
        /\ assigned_role[p] = "Seer"
        /\ player_names[p] \in DOMAIN night_file
        /\ night_file[player_names[p]].kind = "seer_player"
        /\ night_file[player_names[p]].ids = << player_names[t] >>
        /\ night_file[player_names[p]].roles # << current_role[t] >>
        /\ pc = "day"

\* C26: a Robber that swaps picks another participant than itself, the two
\* exchange their current roles, everybody else keeps theirs, and the role
\* recorded is the Robber's new current role; a Robber that passes changes
\* no current role.
C26_RobberSwap ==
    [][ (\A p \in Players :
            (NightStep(p) /\ assigned_role[p] = "Robber") =>
            LET r == NewRecord(p) IN
            \/ /\ r.kind = "robber_swap"
               /\ \E t \in Players \ {p} :
                    /\ r.ids = << player_names[t] >>
                    /\ current_role'[p] = current_role[t]
                    /\ current_role'[t] = current_role[p]
                    /\ \A q \in Players \ { p, t } :
                          current_role'[q] = current_role[q]
               /\ r.roles = << current_role'[p] >>
            \/ /\ r.kind = "robber_pass"
               /\ current_role' = current_role) ]_vars

\* C26 witness: the Robber has just taken a Werewolf card, its record names
\* that card, and its target holds the Robber card.
C26_Witness ==
    /\ pc = "night_actions"
    /\ night_done # << >>
    /\ LET p == night_done[Len(night_done)] IN
       /\ assigned_role[p] = "Robber"
       /\ night_file[player_names[p]].kind = "robber_swap"
       /\ night_file[player_names[p]].roles = << "Werewolf" >>
       /\ current_role[p] = "Werewolf"
       /\ \E t \in Players \ {p} :
            /\ night_file[player_names[p]].ids = << player_names[t] >>
            /\ current_role[t] = "Robber"

\* C27: a Troublemaker that swaps has at least two other participants,
\* picks two different ones, neither of them itself, and those two exchange
\* their current roles while the Troublemaker and everybody else keep theirs;
\* a Troublemaker that passes, or has fewer than two other participants,
\* changes no current role.
C27_TroublemakerSwap ==
    [][ (\A p \in Players :
            (NightStep(p) /\ assigned_role[p] = "Troublemaker") =>
            LET r == NewRecord(p) IN
            /\ \/ /\ r.kind = "troublemaker_swap"
                  /\ \E a, b \in Players \ {p} :
                       /\ a # b
                       /\ r.ids = << player_names[a], player_names[b] >>
                       /\ current_role'[a] = current_role[b]
                       /\ current_role'[b] = current_role[a]
                       /\ \A q \in Players \ { a, b } :
                             current_role'[q] = current_role[q]
                  /\ current_role'[p] = current_role[p]
               \/ /\ r.kind \in { "troublemaker_pass", "troublemaker_short" }
                  /\ current_role' = current_role
            /\ Cardinality(Players \ {p}) < 2 =>
                  /\ r.kind # "troublemaker_swap"
                  /\ current_role' = current_role) ]_vars

\* C27 witness: the Troublemaker has just swapped two participants that
\* held different cards; it still holds its own card.
C27_Witness ==
    /\ pc = "night_actions"
    /\ night_done # << >>
    /\ LET p == night_done[Len(night_done)] IN
       /\ assigned_role[p] = "Troublemaker"
       /\ current_role[p] = "Troublemaker"
       /\ night_file[player_names[p]].kind = "troublemaker_swap"
       /\ \E a, b \in Players \ {p} :
            /\ a # b
            /\ night_file[player_names[p]].ids
                 = << player_names[a], player_names[b] >>
            /\ current_role[a] = assigned_role[b]
            /\ current_role[b] = assigned_role[a]
            /\ current_role[a] # current_role[b]

\* the kinds of action record a participant dealt the given role can write
RecordKinds(role) ==
    CASE role = "Werewolf" -> { "saw_werewolves", "lone_werewolf" }
      [] role = "Seer" -> { "seer_player", "seer_center" }
      [] role = "Robber" -> { "robber_swap", "robber_pass" }
      [] role = "Troublemaker" ->
            { "troublemaker_swap", "troublemaker_pass", "troublemaker_short" }
      [] role = "Villager" -> { "villager" }
      [] OTHER -> {}

\* C28: the start of a game empties the night-action log; during the night
\* it holds the records of the participants that have acted and nothing
\* else; at the end of the night it holds exactly one record for each
\* participant of the roster, keyed by its id and written by its own role
\* (Villagers included), and the log loaded for the discussion is that log,
\* with nothing left from an earlier game.
C28_NightLogOfThisGame ==
    /\ pc = "assign" => night_file = EmptyMap /\ cm_night_actions = EmptyMap
    /\ pc \in { "night", "night_actions" } =>
          /\ DOMAIN night_file = { player_names[night_done[i]] :
                                      i \in DOMAIN night_done }
          /\ cm_night_actions = EmptyMap
    /\ phase \in { "day", "voting" } =>
          /\ DOMAIN night_file = Range(player_names)
          /\ cm_night_actions = night_file
    /\ pc # "start" =>
          /\ DOMAIN night_file \subseteq Range(player_names)
          /\ \A p \in Players :
                player_names[p] \in DOMAIN night_file =>
                    /\ night_file[player_names[p]] # StaleRecord
                    /\ night_file[player_names[p]].kind
                         \in RecordKinds(assigned_role[p])

\* C28 witness: the night of a game with a Villager is over and the loaded
\* log has a record for each of the participants, the Villager's among them.
C28_Witness ==
    /\ pc = "day"
    /\ DOMAIN cm_night_actions = Range(player_names)
    /\ \E p \in Players :
         /\ assigned_role[p] = "Villager"
         /\ cm_night_actions[player_names[p]].kind = "villager"

\* the votes a tally holds
TallyTotal(count) == SumSeq([ i \in 1..Len(player_names) |-> count[i] ])

\* C29: every voting round, the first and each revote, starts from a tally
\* with every participant at 0; throughout a round every participant has an
\* entry that is a natural number, and the tally holds exactly the votes
\* counted so far in that round, so that the tally that decides holds no
\* vote of an earlier round.
C29_TallyRebuiltEachRound ==
    /\ [](pc \in { "vote_ask", "vote_wait" } =>
             /\ DOMAIN vote_count = Players
             /\ \A p \in Players : vote_count[p] \in Nat
             /\ voter = 0 => \A p \in Players : vote_count[p] = 0
             /\ TallyTotal(vote_count) + Len(warnings) = voter)
    /\ [][ (vote_round' # vote_round) =>
             /\ voter' = 0
             /\ \A p \in Players : vote_count'[p] = 0 ]_vars
    /\ [](pc \in { "announce", "end", "done" } =>
             /\ DOMAIN last_count = Players
             /\ TallyTotal(last_count) + Len(warnings) = Len(player_names))

\* C29 witness: a revote has been decided by a tally that holds one vote
\* for each participant, after a first round in which every vote counted.
C29_Witness ==
    /\ pc = "announce"
    /\ vote_round = 2
    /\ warnings = << >>
    /\ TallyTotal(last_count) = Len(player_names)

\* records another game's participants could have written
OtherRecords ==
    { StaleRecord, Record("troublemaker_pass", << >>, << >>),
      Record("villager", << >>, << >>) }

\* the night-action logs of runs that agree with this one on the record of
\* participant p and differ, or not, in the records of the others
LogsAgreeingOn(p) ==
    { m \in [ DOMAIN cm_night_actions ->
                OtherRecords \cup { cm_night_actions[k] : k \in DOMAIN cm_night_actions } ] :
        m[player_names[p]] = cm_night_actions[player_names[p]] }

\* C30: a request made for participant p, for an utterance or a vote,
\* carries exactly p's own night-action record and the transcript as it
\* stands; the context built from any log that agrees on p's record, with
\* whatever records for the other participants, is the same.
C30_OwnNightActionOnly ==
    (pending # NoRequest) =>
        LET p == pending.player IN
        /\ pending.kind \in { "utterance", "vote", "tie_vote" }
        /\ pending.night = << cm_night_actions[player_names[p]] >>
        /\ pending.history = conversation_history
        /\ \A m \in LogsAgreeingOn(p) : NightActionOf(m, p) = pending.night

\* C30 witness: a vote is asked of the Robber, which swapped; the other
\* participant's record is another one, and the transcript is not empty.
C30_Witness ==
    /\ pc = "vote_wait"
    /\ pending.kind = "vote"
    /\ conversation_history # << >>
    /\ Len(pending.night) = 1
    /\ pending.night[1].kind = "robber_swap"
    /\ \E q \in Players \ { pending.player } :
         cm_night_actions[player_names[q]] # pending.night[1]

\* the lines of the voting-results log written by the given game
LinesOf(game) == { i \in DOMAIN vote_log : vote_log[i].game = game }

\* C21: the night-action log and the voting-results log are one location
\* for both games.  Whichever game starts empties the night-action log and
\* cuts the voting-results log down to its header, whatever the other game
\* has written; the night of the second game overwrites the record of every
\* id of the roster; and both games' results are appended to the one
\* voting-results log, each after whatever the other has put there.
C21_LogsShared ==
    /\ [][ ((pc = "start" /\ pc' = "assign")
              \/ (other_pc = "idle" /\ other_pc' # "idle")) =>
             /\ night_file' = EmptyMap
             /\ vote_log' = << HeaderLine >> ]_vars
    /\ [][ (other_pc = "night" /\ other_pc' # "night") =>
             \A id \in Range(player_names) :
                 /\ id \in DOMAIN night_file'
                 /\ night_file'[id] = OtherGameRecord ]_vars
    /\ [][ (pc = "announce" /\ pc' = "end") =>
             /\ Extends(vote_log', vote_log)
             /\ Len(vote_log') = Len(vote_log) + Len(assigned_role) + 2
             /\ \A i \in (Len(vote_log) + 1)..Len(vote_log') :
                   vote_log'[i].game = "this" ]_vars
    /\ [][ (other_pc \in { "voting", "result" } /\ other_pc' # other_pc) =>
             /\ Extends(vote_log', vote_log)
             /\ Len(vote_log') > Len(vote_log)
             /\ \A i \in (Len(vote_log) + 1)..Len(vote_log') :
                   vote_log'[i].game = "other" ]_vars

\* C21 witness: both games have finished; in the voting-results log the
\* final vote count of this game stands between the final vote count of
\* the second game and the second game's result, and the night-action log
\* holds the second game's records, not the ones this game loaded.
C21_Witness ==
    /\ pc = "done"
    /\ other_pc = "done"
    /\ \E i, k \in LinesOf("other"), j \in LinesOf("this") :
         /\ i < j /\ j < k
         /\ vote_log[i].kind = "votes"
         /\ vote_log[j].kind = "votes"
         /\ vote_log[k].kind = "game_result"
    /\ DOMAIN cm_night_actions = Range(player_names)
    /\ \A id \in Range(player_names) :
         /\ night_file[id] = OtherGameRecord
         /\ cm_night_actions[id] # OtherGameRecord

\* the candidates the extraction of the request in flight searches for
Candidates == IF pending.kind = "tie_vote" THEN pending.tied ELSE AllNames

\* the answer made of the word alone
Bare(word) == [ form |-> "bare", word |-> word ]

\* C31 (the claim as stated; the code violates it): whenever a vote is asked,
\* in the first round or in a revote, an answer that names a participant in
\* quotes, with a final period or inside a sentence is counted as the answer
\* made of that participant's id alone would be: for the same participant,
\* or not at all if the id alone would not count.
C31_EmbeddedIdCountsAsBare ==
    pc = "vote_wait" =>
        \A response \in VoteResponses :
            response.word \in Range(player_names) =>
                LET v == CleanVote(response, Candidates)
                    b == CleanVote(Bare(response.word), Candidates)
                IN /\ Counted(v) <=> Counted(b)
                   /\ Counted(v) => PlayerDict(v) = PlayerDict(b)

\* a voting round is complete and one participant alone holds the maximum
UniquePlurality ==
    /\ pc = "vote_ask"
    /\ voter = Len(player_names)
    /\ Len(GetMaxVotedPlayers(vote_count)) = 1

\* the voting is decided: _announce_results or _end_game is next, or the
\* game is over
Decided == pc \in { "announce", "end", "done" }

\* C32: with an oracle that always answers, a voting round that ends with
\* one participant alone at the maximum is followed by the end of the game:
\* the next step leaves the voting loop, the game reaches the phase ended
\* with the results announced exactly once, and from the decision on there
\* is no oracle request, no further vote round and no narration but the
\* results and the closing announcement.
C32_UniquePluralityEndsGame ==
    /\ UniquePlurality ~> (pc = "done" /\ phase = "ended")
    /\ [][ UniquePlurality => pc' = "announce" ]_vars
    /\ [][ Decided =>
             /\ Decided'
             /\ pending' = NoRequest
             /\ vote_round' = vote_round
             /\ vote_count' = vote_count
             /\ conversation_history' = conversation_history
             /\ night_file' = night_file
             /\ \A i \in (Len(narration) + 1)..Len(narration') :
                   narration'[i] \in { "final_results", "village_wins",
                                       "werewolf_wins", "game_over" } ]_vars
    /\ [](pc = "done" =>
             /\ phase = "ended"
             /\ Count(narration, "final_results") = 1
             /\ Count(narration, "game_over") = 1
             /\ Count(narration, "village_wins")
                  + Count(narration, "werewolf_wins") = 1)

\* C32 witness: a game that needed a revote is over: the revote gave one
\* participant alone the maximum and the results were announced.
C32_Witness ==
    /\ pc = "done"
    /\ phase = "ended"
    /\ vote_round = 2
    /\ Len(GetMaxVotedPlayers(last_count)) = 1
    /\ winner # "none"
    /\ Count(narration, "final_results") = 1

\* the night action of participant p, whose turn it is, cannot raise, and
\* each of the choices its role draws between can be made
NightActionSafe(p) ==
    /\ ~ ENABLED NightActionFails(p)
    /\ ~ ENABLED TroublemakerShort(p)
    /\ assigned_role[p] = "Werewolf" =>
          ENABLED WerewolfSeesPack(p) \/ ENABLED WerewolfPeeksCenter(p)
    /\ assigned_role[p] = "Seer" =>
          ENABLED SeerPeeksPlayer(p) /\ ENABLED SeerPeeksCenter(p)
    /\ assigned_role[p] = "Robber" =>
          ENABLED RobberSwaps(p) /\ ENABLED RobberPasses(p)
    /\ assigned_role[p] = "Troublemaker" =>
          ENABLED TroublemakerSwaps(p) /\ ENABLED TroublemakerPasses(p)
    /\ assigned_role[p] = "Villager" => ENABLED VillagerSleeps(p)

\* C33: in the reference configuration every deal leaves as many center
\* cards as the deck has more than the roster, at least two, and creates
\* every participant; and at every turn of the night, whatever was dealt
\* and whatever the earlier night actions chose, the action of the
\* participant whose turn it is cannot raise: a lone Werewolf has a center
\* card to look at, a Seer two center positions and another participant, a
\* Robber another participant, a Troublemaker two.
C33_ReferenceNightSafe ==
    (pc \in { "night", "night_actions" }) =>
        /\ error = "none"
        /\ Len(assigned_role) = Len(player_names)
        /\ Len(center_roles) = Len(deck) - Len(player_names)
        /\ Len(center_roles) >= 2
        /\ \A p \in Players : Cardinality(OtherPlayers(p)) >= 2
        /\ (pc = "night_actions" /\ NightActor # 0) =>
              NightActionSafe(NightActor)

\* C33 witness: in the reference configuration a lone Werewolf has looked
\* at a center card, the Seer at two, the Robber has swapped, and it is the
\* Troublemaker's turn.
C33_Witness ==
    /\ deck = ReferenceDeck
    /\ player_names = AllNames
    /\ pc = "night_actions"
    /\ Len(night_done) = 3
    /\ night_file[player_names[night_done[1]]].kind = "lone_werewolf"
    /\ night_file[player_names[night_done[2]]].kind = "seer_center"
    /\ night_file[player_names[night_done[3]]].kind = "robber_swap"
    /\ NightActor # 0
    /\ assigned_role[NightActor] = "Troublemaker"

\* the night of this game is over and its log is loaded
NightLoaded == pc \notin { "start", "assign", "night", "night_actions" }

\* C34: with a second game on the same roster that runs only while this
\* game awaits a send, the night-action memory this game loads at the end
\* of its night, and keeps from then on, has for every participant of the
\* roster the record that participant wrote in this game, and no record of
\* the second game: the second game takes no step between this game's
\* first night action and its load, and the night actions rewrite every id.
C34_LoadedLogIsOwn ==
    /\ [](NightLoaded =>
             /\ DOMAIN cm_night_actions = Range(player_names)
             /\ \A p \in Players :
                   /\ cm_night_actions[player_names[p]] # OtherGameRecord
                   /\ cm_night_actions[player_names[p]].kind
                        \in RecordKinds(assigned_role[p]))
    /\ [][ (pc = "night_actions" /\ pc' = "day") =>
             /\ cm_night_actions' = night_file
             /\ Len(night_done) = Len(player_names)
             /\ \A id \in Range(player_names) :
                   night_file[id] # OtherGameRecord ]_vars
    /\ [][ (pc = "night_actions" /\ night_done # << >>) =>
             /\ other_pc' = other_pc
             /\ \A id \in DOMAIN night_file :
                   id \in DOMAIN night_file'
                     /\ (night_file'[id] # night_file[id] =>
                            night_file'[id] # OtherGameRecord) ]_vars
    /\ [][ NightLoaded => cm_night_actions' = cm_night_actions ]_vars

\* C34 witness: the second game has had its night, this game has loaded its
\* log, and the log on file is still the one this game wrote: the second
\* game's records were on file before this game's night actions and every
\* one of them has been rewritten.
C34_Witness ==
    /\ pc = "day"
    /\ other_pc = "voting"
    /\ night_file = cm_night_actions
    /\ DOMAIN cm_night_actions = Range(player_names)
    /\ \A id \in Range(player_names) : cm_night_actions[id] # OtherGameRecord

====
